---------------------------- MODULE Spec2Model ----------------------------
(***************************************************************************)
(* Data layer of the Hacker News client (src/unnamed/part_002, the page    *)
(* component that starts at line 917): entity fetcher, feed pagination,    *)
(* comment-tree builder and the timed session caches.                      *)
(*                                                                         *)
(* The module holds several specifications over one set of variables; the  *)
(* variable mode says which part of the program a behaviour exercises:     *)
(*   SpecPage   a chain of fetchFeedPage calls over one id list            *)
(*   SpecTree   one buildCommentTree call over an upstream comment graph   *)
(*   SpecCache  reads and writes of the three timed caches as time passes  *)
(*   SpecFeed   a session of FeedView: loads, refreshes, load-mores,       *)
(*              category switches and unmounts over the feed cache         *)
(*   SpecPast   a session of FeedView for the category past                *)
(*   SpecFetch  any one of SpecPage, SpecTree and SpecFeed                 *)
(*   SpecSingle single calls of fetchItemById and fetchUserById            *)
(*   SpecPost   a session of PostView: post loads, their cancellation on   *)
(*              leaving the post, and the post cache                       *)
(*   SpecResolve calls of fetchStoryIds for every category, against an     *)
(*              upstream whose endpoints hold different id lists           *)
(*   SpecAbort  a chain of fetchFeedPage calls whose signal may be aborted *)
(*              at any point of a call                                     *)
(*   SpecStale  a session of FeedView over an upstream whose story list    *)
(*              changes as time passes                                     *)
(*   SpecUser   a session of UserView over the user cache                  *)
(*   SpecViews  any one of SpecFeed, SpecPost and SpecUser                 *)
(*   SpecTreeLive, SpecFeedLive  SpecTree and SpecStale where every        *)
(*              awaited request settles and the waiting call resumes       *)
(***************************************************************************)
EXTENDS Integers, Sequences, FiniteSets, TLC

VARIABLES
    mode,       \* which part of the program this behaviour exercises
    world,      \* how the upstream API answers item requests
    section,    \* the feed category (Section)
    idList,     \* the id list handed to fetchFeedPage
    chainStart, \* startIndex of the first fetchFeedPage call of the chain
    page,       \* frame of the running fetchFeedPage call
    batch,      \* frame of the running fetchItemsByIds call
    pages,      \* the results fetchFeedPage returned so far, in call order
    treeIds,    \* the ids handed to the outermost buildCommentTree call
    treeDepth,  \* the depth handed to the outermost buildCommentTree call
    frames,     \* the buildCommentTree calls that await requests or children
    tpc,        \* where the outermost buildCommentTree call stands
    treeOut,    \* what the outermost buildCommentTree call returned
    injected,   \* item requests of the tree that failed in transport
    feedCache,  \* Map<Section, TimedValue<FeedSnapshot>>
    postCache,  \* Map<number, TimedValue<PostSnapshot>>
    userCache,  \* Map<string, TimedValue<HNUser>>
    now,        \* Date.now(), in milliseconds
    writes,     \* number of cache writes so far
    lastOp,     \* the cache operation just performed and what it returned
    lastWrite,  \* history: per store and key, the value and time of the last write
    mounted,    \* a FeedView is mounted
    view,       \* the useState values of the mounted FeedView
    requestRef, \* requestRef.current: the controller of a feed load, or 0
    loadMoreRef, \* loadMoreRef.current: the controller of a load-more, or 0
    ops,        \* the feed loads and load-mores started, by controller
    cursorHigh, \* history: per category, the highest cursor shown or cached
    postView,   \* the useState values of the PostView on screen, if any
    postLoads,  \* the post loads started, by controller
    resolved,   \* per category, the latest fetchStoryIds call made for it
    userView,   \* the useState values of the UserView on screen, if any
    userLoads   \* the user loads started, by controller

envVars == <<mode, world, section>>
pageVars == <<idList, chainStart, page, batch, pages>>
treeVars == <<treeIds, treeDepth, frames, tpc, treeOut, injected>>
cacheVars == <<feedCache, postCache, userCache, now, writes, lastOp, lastWrite>>
feedVars == <<mounted, view, requestRef, loadMoreRef, ops, cursorHigh>>
postVars == <<postView, postLoads>>
resolveVars == <<resolved>>
userVars == <<userView, userLoads>>
notPageVars == <<treeVars, cacheVars, feedVars, postVars, resolveVars, userVars>>
notTreeVars == <<pageVars, cacheVars, feedVars, postVars, resolveVars, userVars>>
notCacheVars == <<pageVars, treeVars, feedVars, postVars, resolveVars, userVars>>
notFeedVars == <<pageVars, treeVars, postCache, userCache, writes, lastOp, lastWrite,
                 postVars, resolveVars, userVars>>
notPostVars == <<pageVars, treeVars, feedVars, feedCache, userCache, writes, lastOp,
                 lastWrite, resolveVars, userVars>>
notResolveVars == <<pageVars, treeVars, cacheVars, feedVars, postVars, userVars>>
notUserVars == <<pageVars, treeVars, feedVars, feedCache, postCache, writes, lastOp,
                 lastWrite, postVars, resolveVars>>
vars == <<envVars, pageVars, treeVars, cacheVars, feedVars, postVars, resolveVars,
         userVars>>

---------------------------------------------------------------------------
(* Program constants *)

MAX_FRONT_PAGE_STORIES == 30
FETCH_CHUNK_SIZE == 15
MAX_COMMENT_DEPTH == 5
MAX_CHILDREN_PER_LEVEL == 10
PAGE_SIZE == 30
FEED_CACHE_TTL_MS == 60000
USER_CACHE_TTL_MS == 5 * 60000
POST_CACHE_TTL_MS == 2 * 60000

(* Bounds of the model *)

\* longest id list of a fetchFeedPage chain
MaxLen == 64
\* largest chunk whose requests settle in every order
MaxAnyOrder == 4
\* length of the deepest upstream comment chain
MaxChain == 7
\* number of ids of the widest upstream level
MaxWide == 12
\* number of cache writes of a session
MaxWrites == 2
\* transport failures injected into the requests of one buildCommentTree call
MaxFailures == 1
\* largest item id of the single-id fetches
MaxSingleId == 3
\* post loads started in a post session
MaxPostLoads == 2
\* user loads started in a user session
MaxUserLoads == 2
\* controllers created in a feed session
MaxOps == 3
\* length of the longest story id list of a feed session
MaxFeedLen == 65

---------------------------------------------------------------------------
(* Values *)

Min(a, b) == IF a < b THEN a ELSE b

\* Array.prototype.slice(from, to) on a 1-based sequence, from and to 0-based
Slice(s, from, to) == SubSeq(s, from + 1, Min(to, Len(s)))

Range(s) == {s[i] : i \in 1..Len(s)}

\* an HNItem: the fields the data layer reads
Item(id, type, dead, deleted, hasText, kids) ==
    [id |-> id, type |-> type, dead |-> dead, deleted |-> deleted,
     hasText |-> hasText, kids |-> kids]

Story(id) == Item(id, "story", FALSE, FALSE, FALSE, <<>>)

\* results of an awaited promise
Null == [tag |-> "null"]
Thrown == [tag |-> "throw"]
Pending == [tag |-> "pending"]
Got(item) == [tag |-> "item", item |-> item]

\* upstream responses: a success status with a JSON body, a non-success
\* status, or a transport failure
OkItem(item) == [kind |-> "ok", body |-> Got(item)]
OkNull == [kind |-> "ok", body |-> Null]
OkNoId == [kind |-> "ok", body |-> [tag |-> "noid"]]
BadStatus == [kind |-> "status"]
NoResponse == [kind |-> "pending"]
NetErr == [kind |-> "neterr"]

---------------------------------------------------------------------------
(* Entity fetcher *)

fetchJson(resp) ==
    IF resp.kind = "neterr" THEN Thrown
    ELSE IF resp.kind # "ok" THEN Thrown
    ELSE resp.body

fetchItemById(resp) ==
    LET item == fetchJson(resp)
    IN  IF item.tag = "throw" THEN Thrown
        ELSE IF item.tag # "item" THEN Null
        ELSE item

\* promise.catch(() => null)
CatchNull(r) == IF r.tag = "throw" THEN Null ELSE r

\* mutant: the request is made without the signal
WithoutSignal(aborted, result) == result

\* fetch(url, { signal }): a request whose signal is aborted rejects, and
\* one made with a signal already aborted rejects without being sent
WithSignal(aborted, result) == IF aborted THEN Thrown ELSE result

\* mutant: results are kept in the order of completion
StoreResultInCompletionOrder(results, i, r) ==
    LET first == CHOOSE k \in 1..Len(results) :
                    /\ results[k].tag = "pending"
                    /\ \A j \in 1..Len(results) : results[j].tag = "pending" => j >= k
    IN  [results EXCEPT ![first] = r]

\* Promise.all: the result of the request at position i goes to slot i
StoreResult(results, i, r) == [results EXCEPT ![i] = r]

\* mutant: the chunk is joined as soon as one of its requests has settled
AnySettled(results) == \E i \in 1..Len(results) : results[i].tag # "pending"

\* Promise.all: every request of the chunk has settled
AllSettled(results) == \A i \in 1..Len(results) : results[i].tag # "pending"
AnyRejected(results) == \E i \in 1..Len(results) : results[i].tag = "throw"

\* the loop over results of fetchItemsByIds
RECURSIVE LiveLoop(_, _, _, _)
LiveLoop(items, results, i, maxItems) ==
    IF i > Len(results) THEN items
    ELSE LET r == results[i]
         IN  IF r.tag # "item" \/ r.item.deleted \/ r.item.dead
               THEN LiveLoop(items, results, i + 1, maxItems)
               ELSE LET pushed == Append(items, r.item)
                    IN  IF Len(pushed) = maxItems THEN pushed
                        ELSE LiveLoop(pushed, results, i + 1, maxItems)

AppendLive(items, results, maxItems) == LiveLoop(items, results, 1, maxItems)

BatchLoopContinues(b) ==
    b.startIndex < Len(b.ids) /\ Len(b.items) < b.maxItems

---------------------------------------------------------------------------
(* Session cache *)

\* new Map()
EmptyMap == [k \in {} |-> 0]

\* Map.prototype.set
MapSet(m, key, v) == [k \in DOMAIN m \cup {key} |-> IF k = key THEN v ELSE m[k]]

\* Map.prototype.delete
MapDelete(m, key) == [k \in DOMAIN m \ {key} |-> m[k]]

Value(v) == [tag |-> "value", value |-> v]

\* mutant: an entry of age maxAgeMs is expired
readTimedCacheExclusive(cache, key, maxAgeMs, t) ==
    IF key \notin DOMAIN cache THEN [ret |-> Null, cache |-> cache]
    ELSE IF t - cache[key].createdAt >= maxAgeMs
      THEN [ret |-> Null, cache |-> MapDelete(cache, key)]
      ELSE [ret |-> Value(cache[key].value), cache |-> cache]

\* readTimedCache at time t: what it returns and the map it leaves
readTimedCache(cache, key, maxAgeMs, t) ==
    IF key \notin DOMAIN cache THEN [ret |-> Null, cache |-> cache]
    ELSE IF t - cache[key].createdAt > maxAgeMs
      THEN [ret |-> Null, cache |-> MapDelete(cache, key)]
      ELSE [ret |-> Value(cache[key].value), cache |-> cache]

\* mutant: an entry that is already there is kept
writeTimedCacheIfAbsent(cache, key, value, t) ==
    IF key \in DOMAIN cache THEN cache
    ELSE MapSet(cache, key, [value |-> value, createdAt |-> t])

\* what a store holds for a key at time t: nothing, a valid or an expired entry
EntryState(cache, key, maxAgeMs, t) ==
    IF key \notin DOMAIN cache THEN "none"
    ELSE IF t - cache[key].createdAt > maxAgeMs THEN "expired"
    ELSE "valid"

\* writeTimedCache at time t: the map it leaves
writeTimedCache(cache, key, value, t) ==
    MapSet(cache, key, [value |-> value, createdAt |-> t])

\* userId.toLowerCase(), on the handles of the model
toLowerCase(h) == IF h = "PG" THEN "pg" ELSE h

\* the keys of the model: categories, post ids, user handles
FeedKeys == {"top", "new"}
PostKeys == {1}
UserHandles == {"pg", "PG"}
UserKeys == {toLowerCase(h) : h \in UserHandles}

NoWrite == [at |-> -1, value |-> 0]
NoWrites == [feed |-> [k \in FeedKeys |-> NoWrite],
             post |-> [k \in PostKeys |-> NoWrite],
             user |-> [k \in UserKeys |-> NoWrite]]

---------------------------------------------------------------------------
(* Feed pagination *)

\* mutant: the jobs and comments categories are filtered like the others
shouldRenderIgnoringSection(item, sec) ==
    IF item.dead \/ item.deleted THEN FALSE
    ELSE item.type = "story" \/ item.type = "poll"

shouldRenderInSection(item, sec) ==
    IF item.dead \/ item.deleted THEN FALSE
    ELSE IF sec = "jobs" THEN item.type = "job"
    ELSE IF sec = "comments" THEN item.type = "comment" /\ item.hasText
    ELSE item.type = "story" \/ item.type = "poll"

\* the loop over fetchedItems of fetchFeedPage
RECURSIVE QualifyLoop(_, _, _, _)
QualifyLoop(pageItems, fetched, i, sec) ==
    IF i > Len(fetched) THEN pageItems
    ELSE IF ~shouldRenderInSection(fetched[i], sec)
      THEN QualifyLoop(pageItems, fetched, i + 1, sec)
      ELSE LET pushed == Append(pageItems, fetched[i])
           IN  IF Len(pushed) = PAGE_SIZE THEN pushed
               ELSE QualifyLoop(pushed, fetched, i + 1, sec)

AppendQualifying(pageItems, fetched, sec) == QualifyLoop(pageItems, fetched, 1, sec)

\* mutant: one underlying chunk per page, as the earlier FeedView fetched
PageLoopOneChunk(p) ==
    /\ p.cursor < Len(p.ids)
    /\ p.cursor < p.startIndex + PAGE_SIZE
    /\ Len(p.pageItems) < PAGE_SIZE

PageLoopContinues(p) ==
    p.cursor < Len(p.ids) /\ Len(p.pageItems) < PAGE_SIZE

\* mutant: the cursor advances by the request chunk size
AdvanceCursorByChunk(cursor) == cursor + FETCH_CHUNK_SIZE

\* cursor += PAGE_SIZE
AdvanceCursor(cursor) == cursor + PAGE_SIZE

---------------------------------------------------------------------------
(* The upstream API, as seen by item requests *)

PageWorlds == {"clean", "scenario", "twothirds", "mixed"}

\* clean: every id is a live story.
\* scenario: item 2 is a story, every other item a job.
\* twothirds: every third item is a job, the others are stories.
\* mixed: missing, malformed, failing, suppressed and off-category items are
\*        spread over the ids.
Respond(w, id) ==
    IF w = "clean" THEN OkItem(Story(id))
    ELSE IF w = "scenario"
      THEN OkItem(Item(id, IF id = 2 THEN "story" ELSE "job", FALSE, FALSE, FALSE, <<>>))
    ELSE IF w = "twothirds"
      THEN OkItem(Item(id, IF id % 3 = 0 THEN "job" ELSE "story", FALSE, FALSE, FALSE, <<>>))
    ELSE IF id % 7 = 0 THEN OkNull
    ELSE IF id % 11 = 5 THEN BadStatus
    ELSE IF id % 13 = 6 THEN NetErr
    ELSE IF id % 19 = 9 THEN OkNoId
    ELSE IF id % 7 = 3 THEN OkItem(Item(id, "story", TRUE, FALSE, FALSE, <<>>))
    ELSE IF id % 17 = 8 THEN OkItem(Item(id, "job", FALSE, TRUE, FALSE, <<>>))
    ELSE IF id % 5 = 1 THEN OkItem(Item(id, "job", FALSE, FALSE, FALSE, <<>>))
    ELSE IF id % 5 = 2 THEN OkItem(Item(id, "comment", FALSE, FALSE, id % 2 = 0, <<>>))
    ELSE IF id % 5 = 3 THEN OkItem(Item(id, "poll", FALSE, FALSE, FALSE, <<>>))
    ELSE OkItem(Story(id))

\* id lists: ascending, descending, and ascending with the first id repeated
\* at the end
ListShapes == {"asc", "desc", "dup"}

MakeList(shape, n) ==
    [i \in 1..n |->
        IF shape = "desc" THEN n + 1 - i
        ELSE IF shape = "dup" /\ i = n /\ n > 1 THEN 1
        ELSE i]

ListLengths == {0, 3, PAGE_SIZE + 1, MaxLen}

NoFrames == [p \in {} |-> 0]

NoPage == [pc |-> "idle", ids |-> <<>>, startIndex |-> 0, cursor |-> 0,
           pageItems |-> <<>>, requested |-> <<>>, reordered |-> FALSE,
           aborted |-> FALSE]
NoBatch == [ids |-> <<>>, maxItems |-> 0, startIndex |-> 0, items |-> <<>>,
            results |-> <<>>, sent |-> <<>>]

\* no buildCommentTree call
TreeOff ==
    /\ treeIds = <<>>
    /\ treeDepth = 0
    /\ frames = NoFrames
    /\ tpc = "off"
    /\ treeOut = <<>>
    /\ injected = 0

\* the caches of a fresh session
CacheOff ==
    /\ feedCache = EmptyMap
    /\ postCache = EmptyMap
    /\ userCache = EmptyMap
    /\ now = 0
    /\ writes = 0
    /\ lastOp = [op |-> "none"]
    /\ lastWrite = NoWrites

\* useState initial values of FeedView
InitialView ==
    [ids |-> <<>>, items |-> <<>>, loadState |-> "idle", errorMessage |-> "",
     nextFetchIndex |-> MAX_FRONT_PAGE_STORIES, loadingMore |-> FALSE]

Sections == {"top", "new", "past", "comments", "ask", "show", "jobs", "submit"}

\* no FeedView
FeedOff ==
    /\ mounted = FALSE
    /\ view = InitialView
    /\ requestRef = 0
    /\ loadMoreRef = 0
    /\ ops = <<>>
    /\ cursorHigh = [s \in Sections |-> -1]

\* no PostView on screen
ClosedPost ==
    [open |-> FALSE, postId |-> 0, item |-> Null, comments |-> <<>>,
     loadState |-> "idle", errorMessage |-> "", load |-> 0, owner |-> 0]

PostOff ==
    /\ postView = ClosedPost
    /\ postLoads = <<>>

\* no fetchStoryIds call made on its own
ResolveOff == resolved = EmptyMap

\* no UserView
ClosedUser ==
    [open |-> FALSE, userId |-> "", user |-> Null, loadState |-> "idle",
     errorMessage |-> "", load |-> 0, owner |-> 0]

UserOff ==
    /\ userView = ClosedUser
    /\ userLoads = <<>>

\* no fetchFeedPage chain
PageOff ==
    /\ idList = <<>>
    /\ chainStart = 0
    /\ page = [NoPage EXCEPT !.pc = "off"]
    /\ batch = NoBatch
    /\ pages = <<>>

---------------------------------------------------------------------------
(* SpecPage: a chain of fetchFeedPage calls, each starting at the cursor   *)
(* the previous call returned (loadFeed's first page, then handleLoadMore) *)

\* a chain of fetchFeedPage calls, with or without cancellation
PageSession == mode \in {"page", "abort"}

InitPage ==
    /\ mode = "page"
    /\ world \in PageWorlds
    /\ section \in {"top", "jobs", "comments"}
    /\ \E shape \in ListShapes, n \in ListLengths : idList = MakeList(shape, n)
    /\ chainStart \in {0, MAX_FRONT_PAGE_STORIES}
    /\ page = NoPage
    /\ batch = NoBatch
    /\ pages = <<>>
    /\ TreeOff
    /\ CacheOff
    /\ FeedOff
    /\ PostOff
    /\ ResolveOff
    /\ UserOff

\* fetchFeedPage(ids, section, startIndex, signal) is called
CallFetchFeedPage ==
    /\ PageSession
    /\ page.pc = "idle"
    /\ \/ pages = <<>>
       \/ /\ pages # <<>>
          /\ pages[Len(pages)].nextFetchIndex < Len(idList)
    /\ LET start == IF pages = <<>> THEN chainStart
                    ELSE pages[Len(pages)].nextFetchIndex
       IN  page' = [pc |-> "loop", ids |-> idList, startIndex |-> start,
                    cursor |-> start, pageItems |-> <<>>, requested |-> <<>>,
                    reordered |-> FALSE, aborted |-> FALSE]
    /\ UNCHANGED <<envVars, idList, chainStart, batch, pages, notPageVars>>

\* one iteration of the while loop up to the call of fetchItemsByIds
PageIterate ==
    /\ PageSession
    /\ page.pc = "loop"
    /\ PageLoopContinues(page)
    /\ LET chunk == Slice(page.ids, page.cursor, page.cursor + PAGE_SIZE)
       IN  /\ page' = [page EXCEPT !.pc = "batch", !.cursor = AdvanceCursor(@)]
           /\ batch' = [ids |-> chunk, maxItems |-> Len(chunk), startIndex |-> 0,
                        items |-> <<>>, results |-> <<>>, sent |-> <<>>]
    /\ UNCHANGED <<envVars, idList, chainStart, pages, notPageVars>>

\* the while loop ends and fetchFeedPage returns; its caller drops the page
\* when the signal is aborted
PageReturn ==
    /\ PageSession
    /\ page.pc = "loop"
    /\ ~PageLoopContinues(page)
    /\ pages' = IF page.aborted THEN pages
                ELSE Append(pages, [startIndex |-> page.startIndex,
                                    items |-> page.pageItems,
                                    nextFetchIndex |-> page.cursor,
                                    requested |-> page.requested,
                                    reordered |-> page.reordered])
    /\ page' = NoPage
    /\ UNCHANGED <<envVars, idList, chainStart, batch, notPageVars>>

\* fetchItemsByIds issues the requests of its next chunk
BatchIssue ==
    /\ PageSession
    /\ page.pc = "batch"
    /\ BatchLoopContinues(batch)
    /\ LET chunk == Slice(batch.ids, batch.startIndex,
                          batch.startIndex + FETCH_CHUNK_SIZE)
       IN  /\ batch' = [batch EXCEPT
                    !.results = [i \in 1..Len(chunk) |-> Pending],
                    !.sent = IF page.aborted THEN @ ELSE @ \o chunk]
           /\ page' = [page EXCEPT !.pc = "await",
                          !.requested = IF page.aborted THEN @ ELSE @ \o chunk]
    /\ UNCHANGED <<envVars, idList, chainStart, pages, notPageVars>>

\* the request at position i of the chunk in flight
RequestedId(b, i) == b.ids[b.startIndex + i]

PendingSlots(results) == {i \in 1..Len(results) : results[i].tag = "pending"}

\* positions whose request may settle next. The requests of a chunk settle in
\* any order: every order is explored for chunks of at most MaxAnyOrder
\* requests, and for longer chunks the oldest or the newest pending request
\* settles next.
MaySettle(results) ==
    LET pend == PendingSlots(results)
    IN  IF Len(results) <= MaxAnyOrder THEN pend
        ELSE {i \in pend : \A j \in pend : j >= i}
                \cup {i \in pend : \A j \in pend : j <= i}

\* one item request of the chunk settles
BatchSettle ==
    /\ PageSession
    /\ page.pc = "await"
    /\ \E i \in MaySettle(batch.results) :
         /\ batch' = [batch EXCEPT !.results =
                      StoreResult(@, i,
                          CatchNull(WithSignal(page.aborted,
                              fetchItemById(Respond(world, RequestedId(batch, i))))))]
         /\ page' = [page EXCEPT !.reordered =
                      @ \/ \E j \in PendingSlots(batch.results) : j < i]
    /\ UNCHANGED <<envVars, idList, chainStart, pages, notPageVars>>

\* Promise.all of the chunk resolves (or rejects) and the results are filtered
BatchJoin ==
    /\ PageSession
    /\ page.pc = "await"
    /\ AllSettled(batch.results)
    /\ IF AnyRejected(batch.results)
         THEN /\ page' = [page EXCEPT !.pc = "threw"]
              /\ batch' = batch
         ELSE /\ batch' = [batch EXCEPT
                    !.items = AppendLive(@, batch.results, batch.maxItems),
                    !.startIndex = @ + FETCH_CHUNK_SIZE,
                    !.results = <<>>]
              /\ page' = [page EXCEPT !.pc = "batch"]
    /\ UNCHANGED <<envVars, idList, chainStart, pages, notPageVars>>

\* fetchItemsByIds returns and fetchFeedPage filters the fetched items
BatchReturn ==
    /\ PageSession
    /\ page.pc = "batch"
    /\ ~BatchLoopContinues(batch)
    /\ page' = [page EXCEPT !.pc = "loop",
                   !.pageItems = AppendQualifying(@, batch.items, section)]
    /\ batch' = [batch EXCEPT !.results = <<>>]
    /\ UNCHANGED <<envVars, idList, chainStart, pages, notPageVars>>

NextPage ==
    \/ CallFetchFeedPage
    \/ PageIterate
    \/ PageReturn
    \/ BatchIssue
    \/ BatchSettle
    \/ BatchJoin
    \/ BatchReturn

SpecPage == InitPage /\ [][NextPage]_vars

---------------------------------------------------------------------------
(* Properties of SpecPage *)

RECURSIVE ConcatItems(_, _)
ConcatItems(ps, k) ==
    IF k > Len(ps) THEN <<>> ELSE ps[k].items \o ConcatItems(ps, k + 1)

\* the concatenation of the items of all pages returned so far
Returned == ConcatItems(pages, 1)

IdsOf(items) == [i \in 1..Len(items) |-> items[i].id]

Distinct(s) == \A i, j \in 1..Len(s) : i # j => s[i] # s[j]

\* s can be read off t from left to right: s[i..] embeds in t[j..]
RECURSIVE Embeds(_, _, _, _)
Embeds(s, t, i, j) ==
    IF i > Len(s) THEN TRUE
    ELSE IF j > Len(t) THEN FALSE
    ELSE IF s[i] = t[j] THEN Embeds(s, t, i + 1, j + 1)
    ELSE Embeds(s, t, i, j + 1)

\* the position of id in a list that holds it
PositionIn(ids, id) == CHOOSE a \in 1..Len(ids) : ids[a] = id

\* C1 as stated: for any id list, the concatenation of the pages of a chain
\* of fetchFeedPage calls holds no two items with the same id.
C1_NoDuplicateIds == Distinct(IdsOf(Returned))

\* C1 amended: for any id list whose ids are pairwise distinct, the
\* concatenation of the pages of a chain of fetchFeedPage calls holds no two
\* items with the same id.
C1_NoDuplicateIdsOfDistinctList ==
    Distinct(idList) => Distinct(IdsOf(Returned))

\* a chain of two calls over a duplicate-free list, both pages non-empty
C1_Witness ==
    /\ Distinct(idList)
    /\ Len(pages) >= 2
    /\ pages[1].items # <<>>
    /\ pages[2].items # <<>>

\* C2: the items returned by a chain of fetchFeedPage calls appear in the
\* order of the positions of their ids in the id list, whatever the order in
\* which the item requests of a chunk complete.
C2_OrderPreserved ==
    /\ Embeds(IdsOf(Returned), idList, 1, 1)
    /\ Distinct(idList) =>
          \A i \in 1..(Len(Returned) - 1) :
             PositionIn(idList, Returned[i].id) < PositionIn(idList, Returned[i + 1].id)

\* a page of several items was returned by a call in which some request
\* completed before an older request of its chunk
C2_Witness ==
    \E k \in 1..Len(pages) :
       /\ pages[k].reordered
       /\ Len(pages[k].items) >= 2
       /\ idList # MakeList("asc", Len(idList))

\* C4: a page has at most 30 items, and fewer than 30 only when the returned
\* cursor has reached or passed the end of the id list.
C4_PageFullOrExhausted ==
    \A k \in 1..Len(pages) :
       /\ Len(pages[k].items) <= PAGE_SIZE
       /\ Len(pages[k].items) < PAGE_SIZE => pages[k].nextFetchIndex >= Len(idList)

\* a full page returned before the list is exhausted, for which more than one
\* underlying chunk was pulled
C4_Witness ==
    \E k \in 1..Len(pages) :
       /\ Len(pages[k].items) = PAGE_SIZE
       /\ pages[k].nextFetchIndex < Len(idList)
       /\ pages[k].nextFetchIndex - pages[k].startIndex > PAGE_SIZE

\* a non-empty page short of 30 items, returned once the list was exhausted
\* after more than one underlying chunk
C4_WitnessExhausted ==
    \E k \in 1..Len(pages) :
       /\ Len(pages[k].items) < PAGE_SIZE
       /\ Len(pages[k].items) > 0
       /\ pages[k].nextFetchIndex - pages[k].startIndex > PAGE_SIZE

\* the category filter in the words of the specification
Qualifies(item, sec) ==
    CASE sec = "jobs" -> item.type = "job"
      [] sec = "comments" -> item.type = "comment" /\ item.hasText
      [] OTHER -> item.type \in {"story", "poll"}

JobsScenario ==
    /\ world = "scenario"
    /\ section = "jobs"
    /\ idList = <<1, 2, 3>>
    /\ chainStart = 0

\* C5: every item of a page satisfies the category filter, and for category
\* jobs with ids [1,2,3], items 1 and 3 jobs and item 2 a story, the page is
\* exactly [1,3].
C5_CategoryFilter ==
    /\ \A k \in 1..Len(pages) :
          \A i \in 1..Len(pages[k].items) : Qualifies(pages[k].items[i], section)
    /\ (JobsScenario /\ pages # <<>>) => IdsOf(pages[1].items) = <<1, 3>>

\* the jobs scenario has returned its page
C5_Witness == JobsScenario /\ pages # <<>> /\ Len(pages[1].items) = 2

\* upstream returns for id an item that is neither dead nor deleted and that
\* satisfies the category filter
ShouldShow(w, id, sec) ==
    LET r == fetchItemById(Respond(w, id))
    IN  /\ r.tag = "item"
        /\ ~r.item.dead
        /\ ~r.item.deleted
        /\ Qualifies(r.item, sec)

\* the ids at the indices from .. to - 1 of the list that should be shown
RECURSIVE QualifyingIds(_, _, _, _, _)
QualifyingIds(w, ids, from, to, sec) ==
    IF from >= to \/ from >= Len(ids) THEN <<>>
    ELSE (IF ShouldShow(w, ids[from + 1], sec) THEN <<ids[from + 1]>> ELSE <<>>)
            \o QualifyingIds(w, ids, from + 1, to, sec)

\* C22: after each call of a chain of fetchFeedPage calls the accumulated
\* items are exactly the live qualifying items of ids[startIndex .. cursor),
\* in order: none is missing and none is there twice.
C22_PagesComplete ==
    \A k \in 1..Len(pages) :
        IdsOf(ConcatItems(SubSeq(pages, 1, k), 1))
            = QualifyingIds(world, idList, chainStart, pages[k].nextFetchIndex,
                            section)

\* C22 for id lists without repeated ids
C22_PagesCompleteOfDistinctList ==
    Distinct(idList) => C22_PagesComplete

\* the requests of the running fetchItemsByIds call that are in flight
InFlight == PendingSlots(batch.results)

\* while a request of the chunk is in flight the call issues no request and
\* does not move on to the next chunk
NextChunkWaits ==
    InFlight # {} => /\ batch'.sent = batch.sent
                     /\ batch'.startIndex = batch.startIndex
                     /\ batch'.ids = batch.ids
                     /\ Len(batch'.results) = Len(batch.results)

\* C20 as stated: within one fetchItemsByIds call at most 15 item requests
\* are in flight at any time, the requests of a chunk are issued only after
\* every request of the chunk before has settled, and each id of the input
\* list is requested at most once.
C20_EachIdRequestedOnce ==
    /\ [](Cardinality(InFlight) <= FETCH_CHUNK_SIZE /\ Distinct(batch.sent))
    /\ [][NextChunkWaits]_vars

\* C20: within one fetchItemsByIds call at most 15 item requests are in
\* flight at any time, the requests of a chunk are issued only after every
\* request of the chunk before has settled, and each entry of the input list
\* is requested at most once, in the order of the list: an id is requested
\* as many times as it occurs among the entries reached.
C20_ChunksInTurn ==
    /\ [](/\ Cardinality(InFlight) <= FETCH_CHUNK_SIZE
          /\ Len(batch.sent) <= Len(batch.ids)
          /\ batch.sent = SubSeq(batch.ids, 1, Len(batch.sent)))
    /\ [][NextChunkWaits]_vars

\* the 15 requests of the second chunk of a call are in flight, the 15 of
\* the first chunk having settled
C20_Witness ==
    /\ page.pc = "await"
    /\ batch.startIndex = FETCH_CHUNK_SIZE
    /\ Len(batch.sent) = 2 * FETCH_CHUNK_SIZE
    /\ Cardinality(InFlight) = FETCH_CHUNK_SIZE

\* an id occurs twice in the input of a call and both entries were requested
C20_WitnessTwice ==
    /\ ~Distinct(batch.ids)
    /\ batch.sent = batch.ids

\* C29: fetchFeedPage returns a cursor c with startIndex <= c <=
\* max(startIndex, length of ids), c > startIndex whenever startIndex is
\* less than the length of ids, and the entries it requested are exactly
\* those at the indices startIndex .. c - 1, each once.
C29_CursorWithinList ==
    \A k \in 1..Len(pages) :
       LET start == pages[k].startIndex
           c == pages[k].nextFetchIndex
       IN  /\ start <= c
           /\ (c <= start \/ c <= Len(idList))
           /\ start < Len(idList) => c > start
           /\ Len(pages[k].requested) = c - start
           /\ \A i \in 1..Len(pages[k].requested) :
                 pages[k].requested[i] = idList[start + i]

---------------------------------------------------------------------------
(* SpecAbort: a chain of fetchFeedPage calls whose signal may be aborted   *)
(* at any point of a call; the next call has a signal of its own           *)

AbortWorlds == {"clean", "mixed"}

InitAbort ==
    /\ mode = "abort"
    /\ world \in AbortWorlds
    /\ section = "top"
    /\ \E shape \in {"asc", "desc"}, n \in {3, MaxLen} : idList = MakeList(shape, n)
    /\ chainStart = 0
    /\ page = NoPage
    /\ batch = NoBatch
    /\ pages = <<>>
    /\ TreeOff
    /\ CacheOff
    /\ FeedOff
    /\ PostOff
    /\ ResolveOff
    /\ UserOff

\* controller.abort() while the fetchFeedPage call is running
AbortPage ==
    /\ mode = "abort"
    /\ page.pc \in {"loop", "batch", "await"}
    /\ ~page.aborted
    /\ page' = [page EXCEPT !.aborted = TRUE]
    /\ UNCHANGED <<envVars, idList, chainStart, batch, pages, notPageVars>>

NextAbort ==
    \/ NextPage
    \/ AbortPage

SpecAbort == InitAbort /\ [][NextAbort]_vars

---------------------------------------------------------------------------
(* Properties of SpecAbort *)

ItemIds(items) == {items[i].id : i \in 1..Len(items)}

\* the items among the results that have settled
SettledItems(results) ==
    {results[i].item.id : i \in {j \in 1..Len(results) : results[j].tag = "item"}}

C19_WitnessInFlight ==
    /\ page.aborted
    /\ page.pc = "await"
    /\ Len(page.requested) = batch.startIndex + Len(batch.results)
    /\ \E i \in PendingSlots(batch.results) :
          fetchItemById(Respond(world, RequestedId(batch, i))).tag = "item"

\* a call whose signal was aborted has returned and a later call, with a
\* signal of its own, has delivered its page
C19_WitnessDropped ==
    /\ Len(pages) = 1
    /\ pages[1].items # <<>>
    /\ page.pc = "loop"
    /\ page.aborted
    /\ ~PageLoopContinues(page)

---------------------------------------------------------------------------
(* Comment-tree builder *)

Comment(id, kids) == Item(id, "comment", FALSE, FALSE, TRUE, kids)

\* { ...item, children }: an HNCommentNode
Node(item, children) ==
    [id |-> item.id, type |-> item.type, dead |-> item.dead,
     deleted |-> item.deleted, hasText |-> item.hasText, kids |-> item.kids,
     children |-> children]

\* mutant: no depth test, the recursion ends only where the kids end
ReturnsEmptyWithoutDepth(ids, depth) == Len(ids) = 0

\* mutant: the depth test lets one more level through
ReturnsEmptyOffByOne(ids, depth) == depth > MAX_COMMENT_DEPTH \/ Len(ids) = 0

\* if (depth >= MAX_COMMENT_DEPTH || ids.length === 0) return []
ReturnsEmpty(ids, depth) == depth >= MAX_COMMENT_DEPTH \/ Len(ids) = 0

\* mutant: every id of the level is requested
limitedIdsUnbounded(ids) == ids

\* ids.slice(0, MAX_CHILDREN_PER_LEVEL)
limitedIds(ids) == Slice(ids, 0, MAX_CHILDREN_PER_LEVEL)

\* mutant: a failed request is not caught
CatchNothing(r) == r

\* fetchItemById(id, signal).catch(() => null) of buildCommentTree
CatchNullInTree(r) == IF r.tag = "throw" THEN Null ELSE r

\* mutant: suppressed comments are kept
isValidCommentIgnoringFlags(r) == r.tag = "item" /\ r.item.type = "comment"

\* the filter that gives validComments
isValidComment(r) ==
    r.tag = "item" /\ r.item.type = "comment" /\ ~r.item.dead /\ ~r.item.deleted

\* positions of the valid comments of a settled level, in order
RECURSIVE ValidSlotsFrom(_, _)
ValidSlotsFrom(results, i) ==
    IF i > Len(results) THEN <<>>
    ELSE IF isValidComment(results[i])
      THEN <<i>> \o ValidSlotsFrom(results, i + 1)
      ELSE ValidSlotsFrom(results, i + 1)

ValidSlots(results) == ValidSlotsFrom(results, 1)

\* the frame of a buildCommentTree call that has issued its requests
NewFrame(ids, depth) ==
    [ids |-> ids, depth |-> depth, requested |-> limitedIds(ids),
     raw |-> [i \in 1..Len(limitedIds(ids)) |-> NoResponse],
     results |-> [i \in 1..Len(limitedIds(ids)) |-> Pending],
     phase |-> "fetching"]

\* the call whose frame is at path p, or which returned at once, is complete
RECURSIVE CallComplete(_, _)
CallComplete(fr, p) ==
    IF p \notin DOMAIN fr THEN TRUE
    ELSE /\ fr[p].phase = "expanded"
         /\ \A i \in Range(ValidSlots(fr[p].results)) : CallComplete(fr, Append(p, i))

\* the nodes the complete call at path p returns
RECURSIVE Nodes(_, _)
Nodes(fr, p) ==
    IF p \notin DOMAIN fr THEN <<>>
    ELSE LET valid == ValidSlots(fr[p].results)
         IN  [k \in 1..Len(valid) |->
                Node(fr[p].results[valid[k]].item, Nodes(fr, Append(p, valid[k])))]

---------------------------------------------------------------------------
(* The upstream comment graphs *)

TreeWorlds == {"chain", "wide", "cycle", "bushy"}

\* chain: comment k has the one kid k + 1, up to comment MaxChain.
\* wide:  MaxWide root ids; comment 1 has MaxWide kids 101, 102, ...; among
\*        each ten some are suppressed, missing, failing or no comments.
\* cycle: comment 1 has kid 2 and comment 2 has kid 1.
\* bushy: a small tree of live comments with two branches.
RootIds(w) ==
    IF w = "chain" THEN <<1>>
    ELSE IF w = "wide" THEN [i \in 1..MaxWide |-> i]
    ELSE IF w = "cycle" THEN <<1>>
    ELSE <<1, 2>>

WideItem(id, k) ==
    IF k = 2 THEN OkItem(Item(id, "comment", TRUE, FALSE, TRUE, <<id + 50>>))
    ELSE IF k = 3 THEN OkItem(Item(id, "story", FALSE, FALSE, FALSE, <<id + 50>>))
    ELSE IF k = 4 THEN OkNull
    ELSE IF k = 5 THEN BadStatus
    ELSE IF k = 6 THEN OkItem(Item(id, "comment", FALSE, TRUE, TRUE, <<>>))
    ELSE IF k = 7 THEN OkNoId
    ELSE IF id = 1 THEN OkItem(Comment(1, [i \in 1..MaxWide |-> 100 + i]))
    ELSE OkItem(Comment(id, <<>>))

TreeRespond(w, id) ==
    IF w = "chain"
      THEN OkItem(Comment(id, IF id < MaxChain THEN <<id + 1>> ELSE <<>>))
    ELSE IF w = "wide" THEN WideItem(id, id % 100)
    ELSE IF w = "cycle" THEN OkItem(Comment(id, IF id = 1 THEN <<2>> ELSE <<1>>))
    ELSE IF id = 1 THEN OkItem(Comment(1, <<3, 4>>))
    ELSE IF id = 2 THEN OkItem(Comment(2, <<5>>))
    ELSE IF id = 3 THEN OkItem(Comment(3, <<6>>))
    ELSE OkItem(Comment(id, <<>>))

---------------------------------------------------------------------------
(* SpecTree: one call buildCommentTree(ids, signal, depth)                 *)

InitTree ==
    /\ mode = "tree"
    /\ world \in TreeWorlds
    /\ section = "top"
    /\ treeIds = RootIds(world)
    /\ treeDepth \in {0, MAX_COMMENT_DEPTH}
    /\ frames = NoFrames
    /\ tpc = "idle"
    /\ treeOut = <<>>
    /\ injected = 0
    /\ PageOff
    /\ CacheOff
    /\ FeedOff
    /\ PostOff
    /\ ResolveOff
    /\ UserOff

\* buildCommentTree is called and returns at once or issues its requests
TreeCall ==
    /\ mode = "tree"
    /\ tpc = "idle"
    /\ IF ReturnsEmpty(treeIds, treeDepth)
         THEN /\ tpc' = "done"
              /\ frames' = frames
         ELSE /\ tpc' = "running"
              /\ frames' = [p \in {<<>>} |-> NewFrame(treeIds, treeDepth)]
    /\ treeOut' = <<>>
    /\ UNCHANGED <<envVars, treeIds, treeDepth, injected, notTreeVars>>

\* a level whose requests have all settled waits for its continuation
ReadyToExpand(fr, p) == fr[p].phase = "fetching" /\ AllSettled(fr[p].results)

\* the answers a request for id can get: the upstream answer, or a transport
\* failure while fewer than MaxFailures were injected
Answers(w, id, n) ==
    {TreeRespond(w, id)} \cup (IF n < MaxFailures THEN {NetErr} ELSE {})

\* one item request of a level settles
TreeSettle ==
    /\ mode = "tree"
    /\ tpc = "running"
    /\ \A q \in DOMAIN frames : ~ReadyToExpand(frames, q)
    /\ \E p \in DOMAIN frames :
         \E i \in PendingSlots(frames[p].results) :
            \E resp \in Answers(world, frames[p].requested[i], injected) :
               /\ frames' = [frames EXCEPT
                     ![p].raw[i] = resp,
                     ![p].results = StoreResult(@, i, CatchNullInTree(fetchItemById(resp)))]
               /\ injected' = IF resp = TreeRespond(world, frames[p].requested[i])
                                THEN injected ELSE injected + 1
    /\ UNCHANGED <<envVars, treeIds, treeDepth, tpc, treeOut, notTreeVars>>

\* the recursive calls for the valid comments of the level at path p that
\* do not return at once
ChildCalls(f, p) ==
    {i \in Range(ValidSlots(f.results)) :
        ~ReturnsEmpty(f.results[i].item.kids, f.depth + 1)}

\* Promise.all of a level resolves: the valid comments are kept and
\* buildCommentTree is called for the kids of each of them
TreeExpand ==
    /\ mode = "tree"
    /\ tpc = "running"
    /\ \E p \in DOMAIN frames :
         /\ ReadyToExpand(frames, p)
         /\ IF AnyRejected(frames[p].results)
              THEN /\ tpc' = "threw"
                   /\ frames' = frames
              ELSE /\ tpc' = tpc
                   /\ frames' =
                        [q \in DOMAIN frames \cup {Append(p, i) : i \in ChildCalls(frames[p], p)} |->
                           IF q = p THEN [frames[p] EXCEPT !.phase = "expanded"]
                           ELSE IF q \in DOMAIN frames THEN frames[q]
                           ELSE NewFrame(frames[p].results[q[Len(q)]].item.kids,
                                         frames[p].depth + 1)]
    /\ UNCHANGED <<envVars, treeIds, treeDepth, treeOut, injected, notTreeVars>>

\* every level is complete: the outermost call returns its nodes
TreeReturn ==
    /\ mode = "tree"
    /\ tpc = "running"
    /\ CallComplete(frames, <<>>)
    /\ tpc' = "done"
    /\ treeOut' = Nodes(frames, <<>>)
    /\ UNCHANGED <<envVars, treeIds, treeDepth, frames, injected, notTreeVars>>

NextTree ==
    \/ TreeCall
    \/ TreeSettle
    \/ TreeExpand
    \/ TreeReturn

SpecTree == InitTree /\ [][NextTree]_vars

---------------------------------------------------------------------------
(* Properties of SpecTree *)

Max(a, b) == IF a > b THEN a ELSE b

\* number of levels of a forest of comment nodes
RECURSIVE Height(_)
RECURSIVE HeightFrom(_, _)
HeightFrom(forest, k) ==
    IF k > Len(forest) THEN 0
    ELSE Max(1 + Height(forest[k].children), HeightFrom(forest, k + 1))
Height(forest) == HeightFrom(forest, 1)

\* C7: buildCommentTree never returns a node deeper than 5 levels below the
\* root item: a call at depth 0 yields nodes at builder depths 0..4 only, no
\* level at depth 5 or more issues a request, and a call at depth >= 5
\* returns the empty list without fetching.
C7_DepthBounded ==
    /\ \A p \in DOMAIN frames : frames[p].depth < MAX_COMMENT_DEPTH
    /\ tpc = "done" => Height(treeOut) <= Max(0, MAX_COMMENT_DEPTH - treeDepth)
    /\ treeDepth >= MAX_COMMENT_DEPTH => frames = NoFrames /\ treeOut = <<>>

\* a chain of more than five nested comments was built from depth 0: the
\* tree is five levels high and its deepest node has a kid that was left out
C7_Witness ==
    /\ world = "chain"
    /\ treeDepth = 0
    /\ tpc = "done"
    /\ Height(treeOut) = MAX_COMMENT_DEPTH
    /\ treeOut[1].children[1].children[1].children[1].children[1].kids # <<>>
    /\ treeOut[1].children[1].children[1].children[1].children[1].children = <<>>

\* the first ten ids of a level, in the words of the specification
FirstTen(ids) == [i \in 1..Min(Len(ids), 10) |-> ids[i]]

\* every level of the forest has at most ten nodes, all among the first ten
\* ids of the level
RECURSIVE WithinFirstTen(_, _)
WithinFirstTen(forest, ids) ==
    /\ Len(forest) <= 10
    /\ \A k \in 1..Len(forest) :
          /\ forest[k].id \in Range(FirstTen(ids))
          /\ WithinFirstTen(forest[k].children, forest[k].kids)

\* C8: at every level exactly the first 10 ids are requested; ids from
\* position 11 on are never requested and never appear in the tree, no error
\* is raised, and every node and the root forest have at most 10 children.
C8_BreadthBounded ==
    /\ tpc # "threw"
    /\ \A p \in DOMAIN frames : frames[p].requested = FirstTen(frames[p].ids)
    /\ tpc = "done" => WithinFirstTen(treeOut, treeIds)

\* a tree was built from more than ten root ids, some of the first ten were
\* dropped, and its first node has more than ten kids of which some were kept
C8_Witness ==
    /\ tpc = "done"
    /\ Len(treeIds) > MAX_CHILDREN_PER_LEVEL
    /\ Len(treeOut) > 1
    /\ Len(treeOut) < MAX_CHILDREN_PER_LEVEL
    /\ Len(treeOut[1].kids) > MAX_CHILDREN_PER_LEVEL
    /\ Len(treeOut[1].children) > 1

\* the upstream answered with a live comment
LiveCommentResponse(resp) ==
    /\ resp.kind = "ok"
    /\ resp.body.tag = "item"
    /\ resp.body.item.type = "comment"
    /\ ~resp.body.item.dead
    /\ ~resp.body.item.deleted

\* the request failed: a non-success status or a transport failure
FailedResponse(resp) == resp.kind \in {"status", "neterr"}

RECURSIVE LiveSlotsFrom(_, _)
LiveSlotsFrom(raw, i) ==
    IF i > Len(raw) THEN <<>>
    ELSE IF LiveCommentResponse(raw[i]) THEN <<i>> \o LiveSlotsFrom(raw, i + 1)
    ELSE LiveSlotsFrom(raw, i + 1)

\* the forest of the comments whose requests succeeded with a live comment,
\* each with its own subtree, in the order of the ids
RECURSIVE ExpectedNodes(_, _)
ExpectedNodes(fr, p) ==
    IF p \notin DOMAIN fr THEN <<>>
    ELSE LET live == LiveSlotsFrom(fr[p].raw, 1)
         IN  [k \in 1..Len(live) |->
                Node(fr[p].raw[live[k]].body.item,
                     ExpectedNodes(fr, Append(p, live[k])))]

\* C9: a failed request for a comment id is swallowed: buildCommentTree does
\* not throw, the failed id and its descendants are absent (no call is made
\* for its kids), and every sibling answered with a live comment is present
\* with its own subtree, in original order.
C9_FailureSwallowed ==
    /\ tpc # "threw"
    /\ \A p \in DOMAIN frames :
          \A i \in 1..Len(frames[p].raw) :
             FailedResponse(frames[p].raw[i]) => Append(p, i) \notin DOMAIN frames
    /\ tpc = "done" => treeOut = ExpectedNodes(frames, <<>>)

\* the request for the first of two root comments failed in transport and
\* the tree holds the second one with its reply
C9_Witness ==
    /\ world = "bushy"
    /\ tpc = "done"
    /\ treeDepth = 0
    /\ frames[<<>>].raw[1] = NetErr
    /\ Len(treeOut) = 1
    /\ treeOut[1].id = 2
    /\ Len(treeOut[1].children) = 1

---------------------------------------------------------------------------
(* SpecCache: readTimedCache and writeTimedCache on the three stores       *)

\* the instants the clock shows: the start of the session and each TTL, one
\* millisecond before and one after
Instants ==
    {0} \cup {ttl + d :
                ttl \in {FEED_CACHE_TTL_MS, POST_CACHE_TTL_MS, USER_CACHE_TTL_MS},
                d \in {-1, 0, 1}}

InitCache ==
    /\ mode = "cache"
    /\ world = "none"
    /\ section = "top"
    /\ CacheOff
    /\ PageOff
    /\ TreeOff
    /\ FeedOff
    /\ PostOff
    /\ ResolveOff
    /\ UserOff

\* time passes
Tick ==
    /\ mode = "cache"
    /\ \E t \in Instants : t > now /\ now' = t
    /\ lastOp' = [op |-> "tick"]
    /\ UNCHANGED <<envVars, feedCache, postCache, userCache, writes, lastWrite, notCacheVars>>

WriteFeedCache ==
    /\ mode = "cache"
    /\ writes < MaxWrites
    /\ writes' = writes + 1
    /\ \E k \in FeedKeys :
         /\ feedCache' = writeTimedCache(feedCache, k, writes', now)
         /\ lastOp' = [op |-> "write", store |-> "feed", key |-> k,
                       prior |-> EntryState(feedCache, k, FEED_CACHE_TTL_MS, now)]
         /\ lastWrite' = [lastWrite EXCEPT !.feed[k] = [at |-> now, value |-> writes']]
    /\ UNCHANGED <<envVars, postCache, userCache, now, notCacheVars>>

WritePostCache ==
    /\ mode = "cache"
    /\ writes < MaxWrites
    /\ writes' = writes + 1
    /\ \E k \in PostKeys :
         /\ postCache' = writeTimedCache(postCache, k, writes', now)
         /\ lastOp' = [op |-> "write", store |-> "post", key |-> k,
                       prior |-> EntryState(postCache, k, POST_CACHE_TTL_MS, now)]
         /\ lastWrite' = [lastWrite EXCEPT !.post[k] = [at |-> now, value |-> writes']]
    /\ UNCHANGED <<envVars, feedCache, userCache, now, notCacheVars>>

WriteUserCache ==
    /\ mode = "cache"
    /\ writes < MaxWrites
    /\ writes' = writes + 1
    /\ \E h \in UserHandles :
         /\ userCache' = writeTimedCache(userCache, toLowerCase(h), writes', now)
         /\ lastOp' = [op |-> "write", store |-> "user", key |-> toLowerCase(h),
                       prior |-> EntryState(userCache, toLowerCase(h),
                                            USER_CACHE_TTL_MS, now)]
         /\ lastWrite' = [lastWrite EXCEPT !.user[toLowerCase(h)] =
                               [at |-> now, value |-> writes']]
    /\ UNCHANGED <<envVars, feedCache, postCache, now, notCacheVars>>

ReadFeedCache ==
    /\ mode = "cache"
    /\ \E k \in FeedKeys :
         LET r == readTimedCache(feedCache, k, FEED_CACHE_TTL_MS, now)
         IN  /\ feedCache' = r.cache
             /\ lastOp' = [op |-> "read", store |-> "feed", key |-> k, ret |-> r.ret]
    /\ UNCHANGED <<envVars, postCache, userCache, now, writes, lastWrite, notCacheVars>>

ReadPostCache ==
    /\ mode = "cache"
    /\ \E k \in PostKeys :
         LET r == readTimedCache(postCache, k, POST_CACHE_TTL_MS, now)
         IN  /\ postCache' = r.cache
             /\ lastOp' = [op |-> "read", store |-> "post", key |-> k, ret |-> r.ret]
    /\ UNCHANGED <<envVars, feedCache, userCache, now, writes, lastWrite, notCacheVars>>

ReadUserCache ==
    /\ mode = "cache"
    /\ \E h \in UserHandles :
         LET r == readTimedCache(userCache, toLowerCase(h), USER_CACHE_TTL_MS, now)
         IN  /\ userCache' = r.cache
             /\ lastOp' = [op |-> "read", store |-> "user", key |-> toLowerCase(h),
                           ret |-> r.ret]
    /\ UNCHANGED <<envVars, feedCache, postCache, now, writes, lastWrite, notCacheVars>>

NextCache ==
    \/ Tick
    \/ WriteFeedCache
    \/ WritePostCache
    \/ WriteUserCache
    \/ ReadFeedCache
    \/ ReadPostCache
    \/ ReadUserCache

SpecCache == InitCache /\ [][NextCache]_vars

---------------------------------------------------------------------------
(* Properties of SpecCache *)

\* the store a cache operation addressed
StoreOf(name) ==
    IF name = "feed" THEN feedCache
    ELSE IF name = "post" THEN postCache
    ELSE userCache

\* the TTLs in the words of the specification: 60 s, 120 s and 300 s
TtlOf(name) ==
    IF name = "feed" THEN 60 * 1000
    ELSE IF name = "post" THEN 120 * 1000
    ELSE 300 * 1000

\* C10: an entry written at T0 and not rewritten is returned unchanged by
\* every read at t with t - T0 <= TTL, the age TTL included; a read with
\* t - T0 > TTL reports absent and removes the entry (so do the reads after
\* it, time moving forward, until the next write).
C10_TtlExpiry ==
    lastOp.op = "read" =>
        LET w == lastWrite[lastOp.store][lastOp.key]
            cache == StoreOf(lastOp.store)
        IN  IF w.at < 0
              THEN lastOp.ret = Null /\ lastOp.key \notin DOMAIN cache
            ELSE IF now - w.at <= TtlOf(lastOp.store)
              THEN /\ lastOp.ret = Value(w.value)
                   /\ lastOp.key \in DOMAIN cache
                   /\ cache[lastOp.key] = [value |-> w.value, createdAt |-> w.at]
            ELSE /\ lastOp.ret = Null
                 /\ lastOp.key \notin DOMAIN cache

\* a feed entry was read at the age of exactly 60 s and returned
C10_Witness ==
    /\ lastOp.op = "read"
    /\ lastOp.store = "feed"
    /\ lastWrite.feed[lastOp.key].at > 0
    /\ now - lastWrite.feed[lastOp.key].at = 60000
    /\ lastOp.ret = Value(lastWrite.feed[lastOp.key].value)

\* a user entry was read past 300 s, reported absent and removed
C10_WitnessExpired ==
    /\ lastOp.op = "read"
    /\ lastOp.store = "user"
    /\ lastWrite.user[lastOp.key].at >= 0
    /\ now - lastWrite.user[lastOp.key].at = 300001
    /\ lastOp.ret = Null
    /\ lastOp.key \notin DOMAIN userCache

\* the entries of a store under the keys other than key
Others(cache, key) == [k \in DOMAIN cache \ {key} |-> cache[k]]

\* C11: writeTimedCache replaces whatever the store held for the key, a valid
\* entry, an expired one or none, by the new value stamped with the current
\* time, and leaves the other keys of the store and the other two stores as
\* they were; a read of a key within the TTL of its last write returns the
\* value of that write.
C11_WriteOverwrites ==
    [][/\ writes' # writes =>
            /\ lastOp'.op = "write"
            /\ lastOp'.store = "feed" =>
                  /\ lastOp'.key \in DOMAIN feedCache'
                  /\ feedCache'[lastOp'.key] = [value |-> writes', createdAt |-> now]
                  /\ Others(feedCache', lastOp'.key) = Others(feedCache, lastOp'.key)
                  /\ postCache' = postCache /\ userCache' = userCache
            /\ lastOp'.store = "post" =>
                  /\ lastOp'.key \in DOMAIN postCache'
                  /\ postCache'[lastOp'.key] = [value |-> writes', createdAt |-> now]
                  /\ Others(postCache', lastOp'.key) = Others(postCache, lastOp'.key)
                  /\ feedCache' = feedCache /\ userCache' = userCache
            /\ lastOp'.store = "user" =>
                  /\ lastOp'.key \in DOMAIN userCache'
                  /\ userCache'[lastOp'.key] = [value |-> writes', createdAt |-> now]
                  /\ Others(userCache', lastOp'.key) = Others(userCache, lastOp'.key)
                  /\ feedCache' = feedCache /\ postCache' = postCache
       /\ (writes' = writes /\ lastOp'.op = "read") =>
            LET w == lastWrite[lastOp'.store][lastOp'.key]
            IN  (w.at >= 0 /\ now - w.at <= TtlOf(lastOp'.store))
                    => lastOp'.ret = Value(w.value)]_vars

\* a write has replaced an expired entry of the feed cache
C11_Witness ==
    /\ lastOp.op = "write"
    /\ lastOp.store = "feed"
    /\ lastOp.prior = "expired"
    /\ feedCache[lastOp.key] = [value |-> writes, createdAt |-> now]

\* a write has replaced a valid entry of the user cache while the feed cache
\* holds an entry
C11_WitnessValid ==
    /\ lastOp.op = "write"
    /\ lastOp.store = "user"
    /\ lastOp.prior = "valid"
    /\ userCache[lastOp.key] = [value |-> writes, createdAt |-> now]

\* the value of the second write to a key has been read back
C11_WitnessRead ==
    /\ lastOp.op = "read"
    /\ lastOp.store = "post"
    /\ writes = 2
    /\ lastOp.ret = Value(2)
    /\ lastWrite.post[lastOp.key].at > 0

---------------------------------------------------------------------------
(* FeedView *)

\* categories a FeedView is shown for in SpecFeed
FeedSections == {"top", "submit"}

FeedWorlds == {"clean", "twothirds", "mixed"}

\* instants of a feed session: the start, and the first instant a snapshot
\* written at the start is expired
FeedInstants == {0, FEED_CACHE_TTL_MS + 1}

\* id lists the story-list endpoints answer with
FeedLists == {MakeList("asc", MaxFeedLen), MakeList("desc", PAGE_SIZE + 5)}

OkList(list) == [kind |-> "ok", body |-> [tag |-> "list", ids |-> list]]

StoryIdsResponses == {OkList(list) : list \in FeedLists} \cup {BadStatus, NetErr}

\* a session of the category past: its categories, and its id lists, the
\* one of 50 ids and the longest one, which is in another order
PastSections == {"past", "submit"}

PastLists == {MakeList("asc", 50), MakeList("desc", MaxFeedLen)}

PastResponses == {OkList(list) : list \in PastLists} \cup {BadStatus, NetErr}

\* a session of FeedView, and what it ranges over
\* a session in which the story list of upstream changes as time passes:
\* the list the endpoint answers with at instant t
ListAt(t) ==
    IF t = 0 THEN MakeList("asc", MaxFeedLen) ELSE MakeList("desc", PAGE_SIZE + 5)

StaleResponses == {OkList(ListAt(now)), BadStatus}

FeedSession == mode \in {"feed", "past", "stale"}

SessionSections == IF mode = "past" THEN PastSections ELSE FeedSections

SessionResponses ==
    IF mode = "past" THEN PastResponses
    ELSE IF mode = "stale" THEN StaleResponses
    ELSE StoryIdsResponses

\* mutant: every category starts at the head of its list
startIndexZero(sec) == 0

\* section === "past" ? MAX_FRONT_PAGE_STORIES : 0
startIndexOf(sec) == IF sec = "past" THEN MAX_FRONT_PAGE_STORIES ELSE 0

\* the rank StoryListItem shows for the item at index (from 0) of the list
rank(sec, index) ==
    IF sec = "past" THEN index + 1 + MAX_FRONT_PAGE_STORIES ELSE index + 1

\* fetchStoryIds(section, signal) on the endpoint's response; the ids of the
\* model are numbers, so the numeric filter keeps them all
fetchStoryIds(sec, resp) ==
    IF sec = "submit" THEN [tag |-> "list", ids |-> <<>>]
    ELSE LET storyIds == fetchJson(resp)
         IN  IF storyIds.tag = "throw" THEN Thrown ELSE storyIds

\* error.message of the error fetchJson throws
ErrorMessage(resp) ==
    IF resp.kind = "status" THEN "Request failed" ELSE "Failed to fetch"

\* fetchItemsByIds(ids, signal, maxItems) from startIndex on, the requests of
\* an aborted signal rejecting
RECURSIVE ItemsByIdsLoop(_, _, _, _, _, _)
ItemsByIdsLoop(w, ids, aborted, startIndex, items, maxItems) ==
    IF ~BatchLoopContinues([ids |-> ids, startIndex |-> startIndex,
                            items |-> items, maxItems |-> maxItems])
      THEN items
      ELSE LET chunk == Slice(ids, startIndex, startIndex + FETCH_CHUNK_SIZE)
               results == [i \in 1..Len(chunk) |->
                             CatchNull(IF aborted THEN Thrown
                                       ELSE fetchItemById(Respond(w, chunk[i])))]
           IN  ItemsByIdsLoop(w, ids, aborted, startIndex + FETCH_CHUNK_SIZE,
                              AppendLive(items, results, maxItems), maxItems)

fetchItemsByIds(w, ids, aborted, maxItems) ==
    ItemsByIdsLoop(w, ids, aborted, 0, <<>>, maxItems)

\* one iteration of the while loop of fetchFeedPage
PageLoopBody(w, op) ==
    LET chunk == Slice(op.ids, op.cursor, op.cursor + PAGE_SIZE)
        fetchedItems == fetchItemsByIds(w, chunk, op.aborted, Len(chunk))
    IN  [op EXCEPT !.cursor = AdvanceCursor(@),
                   !.requested = @ \o chunk,
                   !.pageItems = AppendQualifying(@, fetchedItems, op.section)]

\* fetchFeedPage from the cursor of op to its return
RECURSIVE PageLoop(_, _)
PageLoop(w, op) ==
    IF PageLoopContinues(op) THEN PageLoop(w, PageLoopBody(w, op)) ELSE op

\* the merge loop of handleLoadMore
RECURSIVE MergeLoop(_, _, _)
MergeLoop(mergedItems, nextItems, i) ==
    IF i > Len(nextItems) THEN mergedItems
    ELSE IF \E k \in 1..Len(mergedItems) : mergedItems[k].id = nextItems[i].id
      THEN MergeLoop(mergedItems, nextItems, i + 1)
      ELSE MergeLoop(Append(mergedItems, nextItems[i]), nextItems, i + 1)

\* mutant: handleLoadMore keeps the cursor it started from
LoadMoreResultKeepingCursor(op) ==
    [ids |-> op.ids,
     items |-> MergeLoop(op.capItems, op.pageItems, 1),
     nextFetchIndex |-> op.capCursor]

\* what handleLoadMore sets and caches once its page has arrived
LoadMoreResult(op) ==
    [ids |-> op.ids,
     items |-> MergeLoop(op.capItems, op.pageItems, 1),
     nextFetchIndex |-> op.cursor]

\* what loadFeed sets and caches once its first page has arrived
LoadFeedResult(op) ==
    [ids |-> op.ids, items |-> op.pageItems, nextFetchIndex |-> op.cursor]

\* hasMore
hasMore(v) == Len(v.ids) > 0 /\ v.nextFetchIndex < Len(v.ids)

\* mutant: a failed load shows an empty feed
LoadFeedFailureSwallowed(v, resp) ==
    [v EXCEPT !.ids = <<>>, !.items = <<>>, !.loadState = "ready"]

\* the catch block of loadFeed
LoadFeedFailure(v, resp) ==
    [v EXCEPT !.items = <<>>, !.loadState = "error",
              !.errorMessage = ErrorMessage(resp)]

\* mutant: the catch block reports the failure of a cancelled load too
LoadFeedCatchReports(op) == FALSE

\* mutant: the catch block returns silently whatever the signal says
LoadFeedCatchSilent(op) == TRUE

\* if (controller.signal.aborted) return, in the catch block of loadFeed
LoadFeedCatchCancelled(op) == op.aborted

\* mutant: loadFeed goes on without looking at its signal
LoadFeedGoesOn(op) == FALSE

\* if (controller.signal.aborted) return, in loadFeed
LoadFeedCancelled(op) == op.aborted

\* controller.abort() on the controller a ref holds
Abort(os, ref) == IF ref = 0 THEN os ELSE [os EXCEPT ![ref].aborted = TRUE]

\* a loadFeed awaiting fetchStoryIds
NewLoad(sec) ==
    [kind |-> "load", section |-> sec, pc |-> "ids", aborted |-> FALSE,
     orphan |-> FALSE, ids |-> <<>>, startIndex |-> 0, cursor |-> 0,
     pageItems |-> <<>>, requested |-> <<>>, capItems |-> <<>>, capCursor |-> 0]

\* a handleLoadMore awaiting fetchFeedPage, with the values of its closure
NewMore(sec, v) ==
    [kind |-> "more", section |-> sec, pc |-> "page", aborted |-> FALSE,
     orphan |-> FALSE, ids |-> v.ids, startIndex |-> v.nextFetchIndex,
     cursor |-> v.nextFetchIndex, pageItems |-> <<>>, requested |-> <<>>,
     capItems |-> v.items,
     capCursor |-> v.nextFetchIndex]

\* an async function that has returned: nothing of its closure is used again;
\* of a loadFeed it is remembered whether it had been cancelled
Finished(op) ==
    [kind |-> op.kind, section |-> "", pc |-> "done",
     aborted |-> (op.kind = "load" /\ op.aborted),
     orphan |-> FALSE, ids |-> <<>>, startIndex |-> 0, cursor |-> 0,
     pageItems |-> <<>>, requested |-> <<>>, capItems |-> <<>>, capCursor |-> 0]

\* mutant: finally clears the ref whatever it holds
ClearRefAlways(ref, o) == 0

\* finally: the ref is cleared if it still holds this controller
ClearRef(ref, o) == IF ref = o THEN 0 ELSE ref

\* the highest cursor a category has had in a ready view or in the feed cache
HighWater(high, m, sec, v, cache) ==
    [s \in Sections |->
        Max(high[s],
            Max(IF m /\ sec = s /\ v.loadState = "ready" THEN v.nextFetchIndex ELSE -1,
                IF s \in DOMAIN cache THEN cache[s].value.nextFetchIndex ELSE -1))]

\* mutant: the test of forceFresh is inverted
cachedSnapshotInverted(forceFresh, cache, sec, t) ==
    IF ~forceFresh THEN [ret |-> Null, cache |-> cache]
    ELSE readTimedCache(cache, sec, FEED_CACHE_TTL_MS, t)

\* mutant: a cached snapshot is served whatever its age
cachedSnapshotOfAnyAge(forceFresh, cache, sec, t) ==
    IF forceFresh \/ sec \notin DOMAIN cache THEN [ret |-> Null, cache |-> cache]
    ELSE [ret |-> Value(cache[sec].value), cache |-> cache]

\* mutant: the cache is read whether or not the load is forced fresh
cachedSnapshotAlways(forceFresh, cache, sec, t) ==
    readTimedCache(cache, sec, FEED_CACHE_TTL_MS, t)

\* !forceFresh ? readTimedCache(feedCache, section, FEED_CACHE_TTL_MS) : null
cachedSnapshot(forceFresh, cache, sec, t) ==
    IF forceFresh THEN [ret |-> Null, cache |-> cache]
    ELSE readTimedCache(cache, sec, FEED_CACHE_TTL_MS, t)

\* loadFeed(forceFresh) up to its first await, os being the controllers after
\* requestRef.current?.abort()
LoadFeed(sec, v, os, forceFresh) ==
    IF sec = "submit"
      THEN /\ view' = [v EXCEPT !.errorMessage = "", !.ids = <<>>, !.items = <<>>,
                                !.nextFetchIndex = 0, !.loadState = "ready"]
           /\ requestRef' = 0
           /\ ops' = os
           /\ feedCache' = feedCache
      ELSE LET read == cachedSnapshot(forceFresh, feedCache, sec, now)
           IN  /\ feedCache' = read.cache
               /\ IF read.ret.tag = "value"
                    THEN /\ view' = [v EXCEPT !.errorMessage = "",
                                        !.ids = read.ret.value.ids,
                                        !.items = read.ret.value.items,
                                        !.nextFetchIndex = read.ret.value.nextFetchIndex,
                                        !.loadState = "ready"]
                         /\ requestRef' = 0
                         /\ ops' = os
                    ELSE /\ Len(os) < MaxOps
                         /\ view' = [v EXCEPT !.errorMessage = "",
                                        !.loadState = "loading",
                                        !.items = <<>>, !.ids = <<>>]
                         /\ ops' = Append(os, NewLoad(sec))
                         /\ requestRef' = Len(os) + 1


---------------------------------------------------------------------------
(* SpecFeed: a session of FeedView. The effect that calls loadFeed runs in *)
(* the commit that mounts the view or changes its category, so mounting    *)
(* and switching include loadFeed up to its first await.                   *)

InitFeed ==
    /\ mode = "feed"
    /\ world \in FeedWorlds
    /\ section = "top"
    /\ CacheOff
    /\ PageOff
    /\ TreeOff
    /\ FeedOff
    /\ PostOff
    /\ ResolveOff
    /\ UserOff

\* FeedView is mounted for a category and its effect calls loadFeed()
Mount ==
    /\ FeedSession
    /\ ~mounted
    /\ \E s \in SessionSections :
         /\ section' = s
         /\ LoadFeed(s, InitialView, ops, FALSE)
    /\ mounted' = TRUE
    /\ loadMoreRef' = 0
    /\ cursorHigh' = HighWater(cursorHigh, mounted', section', view', feedCache')
    /\ UNCHANGED <<mode, world, now, notFeedVars>>

\* the category changes: the effect's cleanup aborts both controllers and the
\* effect calls the new loadFeed()
SwitchSection ==
    /\ FeedSession
    /\ mounted
    /\ \E s \in SessionSections \ {section} :
         /\ section' = s
         /\ LoadFeed(s, view, Abort(Abort(ops, requestRef), loadMoreRef), FALSE)
    /\ cursorHigh' = HighWater(cursorHigh, mounted, section', view', feedCache')
    /\ UNCHANGED <<mode, world, now, mounted, loadMoreRef, notFeedVars>>

\* FeedView is unmounted: the effect's cleanup aborts both controllers
Unmount ==
    /\ FeedSession
    /\ mounted
    /\ mounted' = FALSE
    /\ ops' = [o \in 1..Len(ops) |->
                 IF ops[o].pc = "done" THEN ops[o]
                 ELSE [Abort(Abort(ops, requestRef), loadMoreRef)[o]
                          EXCEPT !.orphan = TRUE]]
    /\ view' = InitialView
    /\ requestRef' = 0
    /\ loadMoreRef' = 0
    /\ UNCHANGED <<envVars, feedCache, now, cursorHigh, notFeedVars>>

\* the refresh button: loadFeed(true)
handleRefresh ==
    /\ FeedSession
    /\ mounted
    /\ view.loadState # "loading"
    /\ section # "submit"
    /\ LoadFeed(section, view, Abort(ops, requestRef), TRUE)
    /\ cursorHigh' = HighWater(cursorHigh, mounted, section, view', feedCache')
    /\ UNCHANGED <<envVars, now, mounted, loadMoreRef, notFeedVars>>

\* fetchStoryIds settles and loadFeed goes on to call fetchFeedPage
StoryIdsArrive ==
    /\ FeedSession
    /\ \E o \in 1..Len(ops) :
         /\ ops[o].pc = "ids"
         /\ \E resp \in SessionResponses :
              LET allIds == IF ops[o].aborted THEN Thrown
                            ELSE fetchStoryIds(ops[o].section, resp)
                  startIndex == startIndexOf(ops[o].section)
              IN  IF allIds.tag = "throw"
                    THEN /\ ops' = [ops EXCEPT ![o] = Finished(@)]
                         /\ requestRef' = ClearRef(requestRef, o)
                         /\ view' = IF LoadFeedCatchCancelled(ops[o]) THEN view
                                    ELSE LoadFeedFailure(view, resp)
                  ELSE IF LoadFeedCancelled(ops[o])
                    THEN /\ ops' = [ops EXCEPT ![o] = Finished(@)]
                         /\ requestRef' = ClearRef(requestRef, o)
                         /\ view' = view
                    ELSE /\ ops' = [ops EXCEPT ![o].pc = "page",
                                       ![o].ids = allIds.ids,
                                       ![o].startIndex = startIndex,
                                       ![o].cursor = startIndex]
                         /\ requestRef' = requestRef
                         /\ view' = view
    /\ cursorHigh' = HighWater(cursorHigh, mounted, section, view', feedCache)
    /\ UNCHANGED <<envVars, feedCache, now, mounted, loadMoreRef, notFeedVars>>

\* fetchFeedPage runs and returns to loadFeed
LoadFeedReturn ==
    /\ FeedSession
    /\ \E o \in 1..Len(ops) :
         /\ ops[o].kind = "load"
         /\ ops[o].pc = "page"
         /\ IF LoadFeedCancelled(ops[o])
              THEN /\ view' = view
                   /\ feedCache' = feedCache
              ELSE LET snapshot == LoadFeedResult(PageLoop(world, ops[o]))
                   IN  /\ view' = [view EXCEPT !.ids = snapshot.ids,
                                      !.items = snapshot.items,
                                      !.nextFetchIndex = snapshot.nextFetchIndex,
                                      !.loadState = "ready"]
                       /\ feedCache' = writeTimedCache(feedCache, ops[o].section,
                                                       snapshot, now)
         /\ ops' = [ops EXCEPT ![o] = Finished(@)]
         /\ requestRef' = ClearRef(requestRef, o)
    /\ cursorHigh' = HighWater(cursorHigh, mounted, section, view', feedCache')
    /\ UNCHANGED <<envVars, now, mounted, loadMoreRef, notFeedVars>>

\* the load-more button
handleLoadMore ==
    /\ FeedSession
    /\ mounted
    /\ view.loadState = "ready"
    /\ hasMore(view)
    /\ ~view.loadingMore
    /\ Len(ops) < MaxOps
    /\ ops' = Append(Abort(ops, loadMoreRef), NewMore(section, view))
    /\ loadMoreRef' = Len(ops) + 1
    /\ view' = [view EXCEPT !.loadingMore = TRUE]
    /\ UNCHANGED <<envVars, feedCache, now, mounted, requestRef, cursorHigh,
                   notFeedVars>>

\* fetchFeedPage runs and returns to handleLoadMore
LoadMoreReturn ==
    /\ FeedSession
    /\ \E o \in 1..Len(ops) :
         /\ ops[o].kind = "more"
         /\ ops[o].pc = "page"
         /\ IF ops[o].aborted
              THEN /\ view' = IF ops[o].orphan THEN view
                              ELSE [view EXCEPT !.loadingMore = FALSE]
                   /\ feedCache' = feedCache
              ELSE LET snapshot == LoadMoreResult(PageLoop(world, ops[o]))
                   IN  /\ view' = [view EXCEPT !.items = snapshot.items,
                                      !.nextFetchIndex = snapshot.nextFetchIndex,
                                      !.loadingMore = FALSE]
                       /\ feedCache' = writeTimedCache(feedCache, ops[o].section,
                                                       snapshot, now)
         /\ ops' = [ops EXCEPT ![o] = Finished(@)]
         /\ loadMoreRef' = ClearRef(loadMoreRef, o)
    /\ cursorHigh' = HighWater(cursorHigh, mounted, section, view', feedCache')
    /\ UNCHANGED <<envVars, now, mounted, requestRef, notFeedVars>>

\* time passes
FeedTick ==
    /\ FeedSession
    /\ \E t \in FeedInstants : t > now /\ now' = t
    /\ UNCHANGED <<envVars, feedCache, feedVars, notFeedVars>>

NextFeed ==
    \/ Mount
    \/ SwitchSection
    \/ Unmount
    \/ handleRefresh
    \/ StoryIdsArrive
    \/ LoadFeedReturn
    \/ handleLoadMore
    \/ LoadMoreReturn
    \/ FeedTick

SpecFeed == InitFeed /\ [][NextFeed]_vars

\* SpecPast: a session of FeedView in which the category is past
InitPast ==
    /\ mode = "past"
    /\ world = "clean"
    /\ section = "past"
    /\ CacheOff
    /\ PageOff
    /\ TreeOff
    /\ FeedOff
    /\ PostOff
    /\ ResolveOff
    /\ UserOff

SpecPast == InitPast /\ [][NextFeed]_vars


---------------------------------------------------------------------------
(* Properties of SpecFeed *)

\* C6 (as stated): for a category within one session the feed cursor, in the
\* ready view state and in the cached feed snapshot, never becomes smaller
\* than a value it had before, whatever loads, load-mores, refreshes and
\* cache-served reloads happen.
C6_CursorOnlyAdvances ==
    \A s \in Sections :
        /\ (mounted /\ section = s /\ view.loadState = "ready")
              => view.nextFetchIndex >= cursorHigh[s]
        /\ s \in DOMAIN feedCache
              => feedCache[s].value.nextFetchIndex >= cursorHigh[s]

\* handleLoadMore o returns un-aborted in this step
LoadMoreApplies(o) ==
    /\ o \in 1..Len(ops)
    /\ ops[o].kind = "more"
    /\ ops[o].pc = "page"
    /\ ~ops[o].aborted
    /\ ops'[o].pc = "done"

\* loadFeed o returns un-aborted from its first page in this step
LoadFeedApplies(o) ==
    /\ o \in 1..Len(ops)
    /\ ops[o].kind = "load"
    /\ ops[o].pc = "page"
    /\ ~ops[o].aborted
    /\ ops'[o].pc = "done"

\* C6 (amended): a handleLoadMore that completes un-aborted leaves the cursor,
\* in the view state and in the snapshot it caches, strictly beyond the cursor
\* it started from; a loadFeed that completes un-aborted leaves in both the
\* cursor of the first page it fetched, whatever the cursor was before.
C6_LoadMoreAdvancesCursor ==
    [][\A o \in 1..MaxOps :
          /\ LoadMoreApplies(o)
                => /\ view'.nextFetchIndex > ops[o].capCursor
                   /\ ops[o].section \in DOMAIN feedCache'
                   /\ feedCache'[ops[o].section].value.nextFetchIndex
                         = view'.nextFetchIndex
          /\ LoadFeedApplies(o)
                => /\ view'.nextFetchIndex = PageLoop(world, ops[o]).cursor
                   /\ feedCache'[ops[o].section].value.nextFetchIndex
                         = view'.nextFetchIndex]_vars

\* a handleLoadMore has completed un-aborted: the view shows more than one
\* page, has a cursor beyond the first page's, and the snapshot is cached
C6_Witness ==
    /\ mounted
    /\ view.loadState = "ready"
    /\ Len(view.items) > PAGE_SIZE
    /\ view.nextFetchIndex > PAGE_SIZE
    /\ section \in DOMAIN feedCache
    /\ feedCache[section].value.nextFetchIndex = view.nextFetchIndex
    /\ feedCache[section].value.items = view.items

\* loadFeed o goes on after an await in this step
LoadFeedResumes(o) ==
    /\ o \in 1..Len(ops)
    /\ ops[o].kind = "load"
    /\ ops[o].pc # "done"
    /\ ops'[o].pc # ops[o].pc

\* C12: a loadFeed that has been cancelled, by a later loadFeed, a refresh, a
\* category switch or an unmount, changes none of ids, items,
\* nextFetchIndex, loadState, errorMessage and feedCache when its awaits
\* settle afterwards, so it never overwrites what a later load has set or
\* cached, whichever response arrives first.
C12_CancelledLoadIsSilent ==
    [][\A o \in 1..MaxOps :
          (LoadFeedResumes(o) /\ ops[o].aborted)
             => /\ view'.ids = view.ids
                /\ view'.items = view.items
                /\ view'.nextFetchIndex = view.nextFetchIndex
                /\ view'.loadState = view.loadState
                /\ view'.errorMessage = view.errorMessage
                /\ feedCache' = feedCache
                /\ ops'[o].pc = "done"]_vars

\* load A was cancelled and has returned, and the later load B for the same
\* category has completed: the view and the cache hold B's snapshot
C12_Witness ==
    /\ mounted
    /\ section = "top"
    /\ Len(ops) >= 2
    /\ ops[1].kind = "load" /\ ops[1].pc = "done" /\ ops[1].aborted
    /\ ops[2].kind = "load" /\ ops[2].pc = "done" /\ ~ops[2].aborted
    /\ view.loadState = "ready"
    /\ view.items # <<>>
    /\ "top" \in DOMAIN feedCache
    /\ feedCache["top"].value.items = view.items

\* load A, cancelled, has returned while load B is still waiting for its id
\* list, and the view still shows B loading
C12_WitnessLate ==
    /\ mounted
    /\ Len(ops) >= 2
    /\ ops[1].kind = "load" /\ ops[1].pc = "done" /\ ops[1].aborted
    /\ ops[2].kind = "load" /\ ops[2].pc = "ids" /\ requestRef = 2
    /\ view.loadState = "loading"

\* the view stays on screen in its category over this step
SameView == mounted /\ mounted' /\ section' = section

\* C15: a refresh never serves the feed from feedCache: it leaves feedCache
\* as it is, valid entry or not, and issues the id-list request of a new
\* load; a view that stays in its category gets new ids, items or a ready
\* state only from a load or load-more that returns; and a load that
\* returns un-aborted writes the snapshot it fetched (ids, first page,
\* cursor) into feedCache with the current time.
C15_RefreshBypassesCache ==
    [][/\ (SameView /\ view.loadState # "loading" /\ view'.loadState = "loading")
            => /\ feedCache' = feedCache
               /\ Len(ops') = Len(ops) + 1
               /\ ops'[Len(ops')] = NewLoad(section)
               /\ requestRef' = Len(ops')
       /\ (SameView /\ section # "submit"
              /\ \/ view'.ids # view.ids
                 \/ view'.items # view.items
                 \/ view'.loadState # view.loadState /\ view'.loadState = "ready")
            => \/ \E o \in 1..Len(ops) : LoadFeedApplies(o) \/ LoadMoreApplies(o)
               \/ view'.loadState \in {"loading", "error"}
       /\ \A o \in 1..MaxOps :
             LoadFeedApplies(o)
                => /\ feedCache'[ops[o].section].createdAt = now
                   /\ feedCache'[ops[o].section].value =
                         [ids |-> ops[o].ids, items |-> view'.items,
                          nextFetchIndex |-> view'.nextFetchIndex]
                   /\ view'.ids = ops[o].ids]_vars

\* a refresh is waiting for its id list while feedCache holds a valid entry
\* for the category
C15_Witness ==
    /\ mounted
    /\ view.loadState = "loading"
    /\ section \in DOMAIN feedCache
    /\ now - feedCache[section].createdAt <= FEED_CACHE_TTL_MS
    /\ requestRef # 0
    /\ ops[requestRef].pc = "ids"

\* a refresh made after a failed refresh has completed: the view is ready
\* and the entry written by the first load has been replaced
C15_WitnessWritten ==
    /\ mounted
    /\ view.loadState = "ready"
    /\ Len(ops) = 3
    /\ \A o \in 1..3 : ops[o].kind = "load" /\ ops[o].pc = "done" /\ ~ops[o].aborted
    /\ section \in DOMAIN feedCache
    /\ feedCache[section].createdAt > 0
    /\ feedCache[section].value.items = view.items

\* C17: when the id-list request of a load that is not cancelled fails, the
\* load ends there: it issues no item request and no second id-list
\* request, leaves loadState = error, a non-empty errorMessage and no items,
\* and does not write feedCache. (A load that is not cancelled leaves its
\* id-list request either this way or, with the list, towards its first
\* page.)
C17_FailedLoadIsReported ==
    [][\A o \in 1..MaxOps :
          /\ (o \in 1..Len(ops) /\ ops[o].pc # "ids") => ops'[o].pc # "ids"
          /\ (LoadFeedResumes(o) /\ ops[o].pc = "ids" /\ ~ops[o].aborted)
                => \/ /\ ops'[o].pc = "done"
                      /\ view'.loadState = "error"
                      /\ view'.errorMessage # ""
                      /\ view'.items = <<>>
                      /\ feedCache' = feedCache
                      /\ Len(ops') = Len(ops)
                      /\ requestRef' = 0
                   \/ /\ ops'[o].pc = "page"
                      /\ ops'[o].ids \in FeedLists \cup PastLists
                      /\ ops'[o].requested = <<>>
                      /\ view' = view
                      /\ feedCache' = feedCache]_vars

\* the id-list request of the initial load failed: the error is shown, no
\* load is in flight and nothing is cached
C17_Witness ==
    /\ mounted
    /\ section = "top"
    /\ view.loadState = "error"
    /\ view.errorMessage = "Request failed"
    /\ view.items = <<>>
    /\ requestRef = 0
    /\ Len(ops) = 1
    /\ ops[1].pc = "done"
    /\ feedCache = EmptyMap

\* a loadFeed was started after the controller o was created
LoadStartedAfter(o) == \E r \in (o + 1)..Len(ops) : ops[r].kind = "load"

\* C23: a handleLoadMore started before a refresh of the same feed view
\* changes neither items nor nextFetchIndex nor the feedCache entry of the
\* category when it returns once the refresh has started.
C23_RefreshSupersedesLoadMore ==
    [][\A o \in 1..MaxOps :
          (/\ o \in 1..Len(ops)
           /\ ops[o].kind = "more"
           /\ ops[o].pc = "page"
           /\ ops'[o].pc = "done"
           /\ LoadStartedAfter(o))
             => /\ view'.items = view.items
                /\ view'.nextFetchIndex = view.nextFetchIndex
                /\ feedCache' = feedCache]_vars

\* the feed loads that are in flight and not cancelled
LiveLoads ==
    {o \in 1..Len(ops) : ops[o].kind = "load" /\ ops[o].pc # "done" /\ ~ops[o].aborted}

\* C27: at any time at most one feed load is in flight and not cancelled,
\* and it is the one requestRef holds; a loadFeed that starts leaves every
\* load before it cancelled, and a load that returns clears requestRef if
\* and only if requestRef still holds its own controller.
C27_OneLiveLoad ==
    /\ [](/\ Cardinality(LiveLoads) <= 1
          /\ LiveLoads \subseteq {requestRef}
          /\ requestRef # 0 => ops[requestRef].kind = "load")
    /\ [][/\ (Len(ops') > Len(ops) /\ ops'[Len(ops')].kind = "load")
               => \A o \in 1..Len(ops) :
                     ops'[o].kind = "load" => (ops'[o].aborted \/ ops'[o].pc = "done")
          /\ \A o \in 1..MaxOps :
                (LoadFeedResumes(o) /\ ops'[o].pc = "done")
                   => requestRef' = IF requestRef = o THEN 0 ELSE requestRef]_vars

\* a load cancelled by a change of category and the load that superseded it
\* are both in flight; requestRef holds the second
C27_Witness ==
    /\ mounted
    /\ Len(ops) >= 2
    /\ ops[1].kind = "load" /\ ops[1].pc # "done" /\ ops[1].aborted
    /\ ops[2].kind = "load" /\ ops[2].pc # "done" /\ ~ops[2].aborted
    /\ requestRef = 2

\* the cancelled load has returned while the load that superseded it is in
\* flight, and requestRef still holds the second
C27_WitnessKept ==
    /\ mounted
    /\ Len(ops) >= 2
    /\ ops[1].kind = "load" /\ ops[1].pc = "done" /\ ops[1].aborted
    /\ ops[2].kind = "load" /\ ops[2].pc = "page" /\ ~ops[2].aborted
    /\ requestRef = 2

---------------------------------------------------------------------------
(* SpecStale: a session of FeedView over an upstream whose story list      *)
(* changes as time passes                                                  *)

InitStale ==
    /\ mode = "stale"
    /\ world = "clean"
    /\ section = "top"
    /\ CacheOff
    /\ PageOff
    /\ TreeOff
    /\ FeedOff
    /\ PostOff
    /\ ResolveOff
    /\ UserOff

SpecStale == InitStale /\ [][NextFeed]_vars

---------------------------------------------------------------------------
(* Properties of SpecStale *)

\* the instant at which upstream answered with this id list
ResolvedAt(ids) == CHOOSE t \in FeedInstants : ListAt(t) = ids

\* in this step loadFeed, called for a view that is mounted or changes its
\* category, serves the feed from feedCache
ServedFromCache ==
    /\ mounted'
    /\ ~mounted \/ section' # section
    /\ section' # "submit"
    /\ view'.loadState = "ready"

\* C24 as stated: whenever loadFeed serves a feed from feedCache, the id list
\* of the served snapshot was resolved from upstream at most 60 s before.
C24_ServedIdsAreFresh ==
    [][ServedFromCache => now - ResolvedAt(view'.ids) <= FEED_CACHE_TTL_MS]_vars

\* C24: whenever loadFeed serves a feed from feedCache, the served snapshot
\* is the entry of the category, which was written at most 60 s before, and
\* its id list was resolved from upstream no later than that write.
C24_ServedEntryIsFresh ==
    [][ServedFromCache =>
          /\ section' \in DOMAIN feedCache
          /\ now - feedCache[section'].createdAt <= FEED_CACHE_TTL_MS
          /\ view'.ids = feedCache[section'].value.ids
          /\ view'.items = feedCache[section'].value.items
          /\ ResolvedAt(view'.ids) <= feedCache[section'].createdAt]_vars

\* the view shows a snapshot served from feedCache whose id list was
\* resolved more than 60 s ago: a load-more rewrote the entry since, and the
\* load-more after it was cancelled by the change of category
C24_Witness ==
    /\ mounted
    /\ section = "top"
    /\ view.loadState = "ready"
    /\ view.ids = ListAt(0)
    /\ now > FEED_CACHE_TTL_MS
    /\ "top" \in DOMAIN feedCache
    /\ feedCache["top"].createdAt = now
    /\ view.items = feedCache["top"].value.items
    /\ \E o \in 1..Len(ops) :
          ops[o].kind = "more" /\ ops[o].aborted /\ ops[o].pc = "page"

---------------------------------------------------------------------------
(* Properties of SpecPast *)

\* the ids at the absolute indices 0..29 of an id list
Reserved(ids) == Range(Slice(ids, 0, MAX_FRONT_PAGE_STORIES))

\* C16 (amended): for the category past every load starts pagination at
\* absolute index 30 of the id list it resolved, and every load-more at the
\* cursor of its snapshot, which is 30 or more: no id at the indices 0..29
\* of that list is requested or returned in a page, none is in the items of
\* the snapshot cached with the list, and the k-th displayed item has rank
\* k + 30; with the 50-id list the first page covers the indices 30..49.
C16_PastLoadsStartAtThirty ==
    /\ \A o \in 1..Len(ops) :
          (ops[o].section = "past" /\ ops[o].pc = "page")
             => /\ ops[o].startIndex >= MAX_FRONT_PAGE_STORIES
                /\ ops[o].kind = "load" => ops[o].startIndex = MAX_FRONT_PAGE_STORIES
                /\ LET returned == PageLoop(world, ops[o])
                   IN  /\ Range(returned.requested) \cap Reserved(ops[o].ids) = {}
                       /\ Range(IdsOf(returned.pageItems)) \cap Reserved(ops[o].ids) = {}
                       /\ (ops[o].kind = "load" /\ Len(ops[o].ids) = 50)
                             => returned.requested = Slice(ops[o].ids, 30, 50)
    /\ (mounted /\ section = "past" /\ view.loadState = "ready")
          => \A k \in 1..Len(view.items) : rank(section, k - 1) = k + 30
    /\ "past" \in DOMAIN feedCache
          => Range(IdsOf(feedCache["past"].value.items))
                \cap Reserved(feedCache["past"].value.ids) = {}

\* C16 (as stated): for the category past every load starts pagination at
\* absolute index 30 of the resolved id list: the ids at the indices 0..29
\* are never requested and never displayed, and the k-th displayed item has
\* rank k + 30; with the 50-id list the first page covers the indices
\* 30..49 and the ranks start at 31.
C16_PastStartsAtThirty ==
    /\ \A o \in 1..Len(ops) :
          (ops[o].section = "past" /\ ops[o].pc = "page")
             => /\ ops[o].startIndex >= MAX_FRONT_PAGE_STORIES
                /\ Range(PageLoop(world, ops[o]).requested)
                      \cap Reserved(ops[o].ids) = {}
    /\ (mounted /\ section = "past" /\ view.loadState = "ready")
          => /\ Range(IdsOf(view.items)) \cap Reserved(view.ids) = {}
             /\ \A k \in 1..Len(view.items) : rank(section, k - 1) = k + 30

\* the 50-id list is shown for past: the first item is the one at index 30
\* and has rank 31, the last one is the one at index 49
C16_Witness ==
    /\ mounted
    /\ section = "past"
    /\ view.loadState = "ready"
    /\ Len(view.ids) = 50
    /\ Len(view.items) = 20
    /\ view.items[1].id = view.ids[31]
    /\ view.items[20].id = view.ids[50]
    /\ rank(section, 0) = 31

\* a load-more of the category past has extended the first page
C16_WitnessMore ==
    /\ mounted
    /\ section = "past"
    /\ view.loadState = "ready"
    /\ Len(view.items) > PAGE_SIZE
    /\ view.items[1].id = view.ids[31]

---------------------------------------------------------------------------
(* SpecFetch: any of the three fetch pipelines, a chain of pages, a comment *)
(* tree or a feed session                                                   *)

InitFetch == InitPage \/ InitTree \/ InitFeed

NextFetch == NextPage \/ NextTree \/ NextFeed

SpecFetch == InitFetch /\ [][NextFetch]_vars

---------------------------------------------------------------------------
(* Properties of SpecFetch *)

Suppressed(item) == item.dead \/ item.deleted

NoneSuppressed(items) == \A i \in 1..Len(items) : ~Suppressed(items[i])

\* no node of the forest, at any level, is suppressed
RECURSIVE NoneSuppressedIn(_)
NoneSuppressedIn(forest) ==
    \A k \in 1..Len(forest) :
        ~Suppressed(forest[k]) /\ NoneSuppressedIn(forest[k].children)

\* the upstream answers the request for id with a dead or deleted item
AnswersSuppressed(resp) ==
    resp.kind = "ok" /\ resp.body.tag = "item" /\ Suppressed(resp.body.item)

\* C3: an item whose dead or deleted flag is true never appears in the
\* output of fetchItemsByIds, in a page returned by fetchFeedPage, in the
\* displayed feed items, or at any level of a tree returned by
\* buildCommentTree.
C3_NoDeadOrDeleted ==
    /\ NoneSuppressed(batch.items)
    /\ NoneSuppressed(page.pageItems)
    /\ \A k \in 1..Len(pages) : NoneSuppressed(pages[k].items)
    /\ NoneSuppressed(view.items)
    /\ \A s \in DOMAIN feedCache : NoneSuppressed(feedCache[s].value.items)
    /\ NoneSuppressedIn(treeOut)

\* buildCommentTree has returned a tree for root ids of which some are dead
\* or deleted comments, and the tree has nodes
C3_Witness ==
    /\ mode = "tree"
    /\ tpc = "done"
    /\ treeOut # <<>>
    /\ \E i \in 1..Len(limitedIds(treeIds)) :
          LET resp == TreeRespond(world, treeIds[i])
          IN  AnswersSuppressed(resp) /\ resp.body.item.type = "comment"

\* fetchFeedPage has returned a page for which a dead or deleted item was
\* requested, and the page has items
C3_WitnessPage ==
    /\ mode = "page"
    /\ pages # <<>>
    /\ pages[1].items # <<>>
    /\ \E i \in 1..Len(pages[1].requested) :
          AnswersSuppressed(Respond(world, pages[1].requested[i]))

\* the feed shows items of an id list that has dead or deleted items among
\* its first page of ids
C3_WitnessFeed ==
    /\ mode = "feed"
    /\ mounted
    /\ view.loadState = "ready"
    /\ view.items # <<>>
    /\ \E i \in 1..Min(PAGE_SIZE, Len(view.ids)) :
          AnswersSuppressed(Respond(world, view.ids[i]))

---------------------------------------------------------------------------
(* PostView *)

PostWorlds == {"bushy", "chain"}

\* instants of a post session: the start, and the first instant a snapshot
\* written at the start is expired
PostInstants == {0, POST_CACHE_TTL_MS + 1}

\* the item endpoint's answers for the post: a story whose kids are the root
\* comments of the world, nothing, or a failure status
PostRespond(w, p) == OkItem(Item(p, "story", FALSE, FALSE, FALSE, RootIds(w)))

PostResponses(w, p) == {PostRespond(w, p), OkNull, BadStatus}

\* buildCommentTree(ids, signal, depth), the signal being aborted by the time
\* the requests of builder depth abortedFrom are issued (never, if abortedFrom
\* is MAX_COMMENT_DEPTH)
RECURSIVE buildCommentTree(_, _, _, _)
buildCommentTree(w, ids, depth, abortedFrom) ==
    IF ReturnsEmpty(ids, depth) THEN <<>>
    ELSE LET requested == limitedIds(ids)
             results == [i \in 1..Len(requested) |->
                           CatchNullInTree(
                               IF depth >= abortedFrom THEN Thrown
                               ELSE fetchItemById(TreeRespond(w, requested[i])))]
             validComments == ValidSlots(results)
         IN  [k \in 1..Len(validComments) |->
                Node(results[validComments[k]].item,
                     buildCommentTree(w, results[validComments[k]].item.kids,
                                      depth + 1, abortedFrom))]

\* a post load awaiting fetchItemById
NewPostLoad(p) ==
    [pc |-> "item", postId |-> p, aborted |-> FALSE, item |-> Null,
     updated |-> FALSE]

\* a post load that has returned; it is remembered whether it had been
\* cancelled and whether it set state or wrote the cache
FinishedPostLoad(load, updated) ==
    [pc |-> "done", postId |-> load.postId, aborted |-> load.aborted,
     item |-> Null, updated |-> updated]

\* controller.abort() by the effect's cleanup
AbortPostLoad(loads, l) ==
    IF l = 0 THEN loads
    ELSE IF loads[l].pc = "done" THEN loads
    ELSE [loads EXCEPT ![l].aborted = TRUE]

\* the setState calls of load l reach the PostView on screen
OnScreen(l) == postView.open /\ postView.owner = l

\* PostView renders again: cachedPost is read from postCache
Rerender(cache, p) == readTimedCache(cache, p, POST_CACHE_TTL_MS, now)

---------------------------------------------------------------------------
(* SpecPost: a session of PostView for one post *)

InitPost ==
    /\ mode = "post"
    /\ world \in PostWorlds
    /\ section = "top"
    /\ CacheOff
    /\ PageOff
    /\ TreeOff
    /\ FeedOff
    /\ PostOff
    /\ ResolveOff
    /\ UserOff

\* PostView is mounted: the cache serves the post, or the effect starts a load
OpenPost ==
    /\ mode = "post"
    /\ ~postView.open
    /\ \E p \in PostKeys :
         LET cachedPost == readTimedCache(postCache, p, POST_CACHE_TTL_MS, now)
         IN  /\ postCache' = cachedPost.cache
             /\ IF cachedPost.ret.tag = "value"
                  THEN /\ postView' = [open |-> TRUE, postId |-> p,
                                       item |-> Got(cachedPost.ret.value.item),
                                       comments |-> cachedPost.ret.value.comments,
                                       loadState |-> "ready", errorMessage |-> "",
                                       load |-> 0, owner |-> 0]
                       /\ postLoads' = postLoads
                  ELSE /\ Len(postLoads) < MaxPostLoads
                       /\ postView' = [open |-> TRUE, postId |-> p, item |-> Null,
                                       comments |-> <<>>, loadState |-> "loading",
                                       errorMessage |-> "",
                                       load |-> Len(postLoads) + 1,
                                       owner |-> Len(postLoads) + 1]
                       /\ postLoads' = Append(postLoads, NewPostLoad(p))
    /\ UNCHANGED <<envVars, now, notPostVars>>

\* PostView is unmounted: the effect's cleanup aborts the controller
ClosePost ==
    /\ mode = "post"
    /\ postView.open
    /\ postLoads' = AbortPostLoad(postLoads, postView.load)
    /\ postView' = ClosedPost
    /\ UNCHANGED <<envVars, postCache, now, notPostVars>>

\* fetchItemById settles: the then callback sets the item and calls
\* buildCommentTree, or the catch callback reports the error
PostItemArrives ==
    /\ mode = "post"
    /\ \E l \in 1..Len(postLoads) :
         /\ postLoads[l].pc = "item"
         /\ IF postLoads[l].aborted
              THEN /\ postLoads' = [postLoads EXCEPT ![l] = FinishedPostLoad(@, FALSE)]
                   /\ postView' = postView
                   /\ postCache' = postCache
              ELSE \E resp \in PostResponses(world, postLoads[l].postId) :
                     LET nextItem == fetchItemById(resp)
                         cachedPost == Rerender(postCache, postLoads[l].postId)
                         depsChanged == cachedPost.ret.tag = "value"
                     IN  /\ postCache' = IF OnScreen(l) THEN cachedPost.cache
                                         ELSE postCache
                         /\ IF nextItem.tag # "item"
                              THEN /\ postLoads' = [postLoads EXCEPT
                                          ![l] = FinishedPostLoad(@, TRUE)]
                                   /\ postView' =
                                        IF OnScreen(l)
                                          THEN [postView EXCEPT !.item = Null,
                                                   !.comments = <<>>,
                                                   !.loadState = "error",
                                                   !.errorMessage =
                                                      IF nextItem.tag = "throw"
                                                        THEN ErrorMessage(resp)
                                                        ELSE "Post not found.",
                                                   !.load = IF depsChanged THEN 0 ELSE @]
                                          ELSE postView
                              ELSE /\ postLoads' = [postLoads EXCEPT
                                          ![l].pc = "tree",
                                          ![l].item = nextItem,
                                          ![l].aborted = OnScreen(l) /\ depsChanged]
                                   /\ postView' =
                                        IF OnScreen(l)
                                          THEN [postView EXCEPT !.item = nextItem,
                                                   !.load = IF depsChanged THEN 0 ELSE @]
                                          ELSE postView
    /\ UNCHANGED <<envVars, now, notPostVars>>

\* buildCommentTree returns: the then callback sets the comments and the
\* load state and writes the post cache
PostTreeReturns ==
    /\ mode = "post"
    /\ \E l \in 1..Len(postLoads) :
         /\ postLoads[l].pc = "tree"
         /\ \E abortedFrom \in 0..MAX_COMMENT_DEPTH :
              /\ postLoads[l].aborted \/ abortedFrom = MAX_COMMENT_DEPTH
              /\ LET nextItem == postLoads[l].item.item
                     nextComments == buildCommentTree(world, nextItem.kids, 0,
                                                      abortedFrom)
                 IN  /\ postView' =
                          IF OnScreen(l)
                            THEN [postView EXCEPT !.comments = nextComments,
                                     !.loadState = "ready", !.load = 0]
                            ELSE postView
                     /\ postCache' = writeTimedCache(postCache, postLoads[l].postId,
                                        [item |-> nextItem, comments |-> nextComments],
                                        now)
         /\ postLoads' = [postLoads EXCEPT ![l] = FinishedPostLoad(@, TRUE)]
    /\ UNCHANGED <<envVars, now, notPostVars>>

\* time passes
PostTick ==
    /\ mode = "post"
    /\ \E t \in PostInstants : t > now /\ now' = t
    /\ UNCHANGED <<envVars, postCache, postVars, notPostVars>>

NextPost ==
    \/ OpenPost
    \/ ClosePost
    \/ PostItemArrives
    \/ PostTreeReturns
    \/ PostTick

SpecPost == InitPost /\ [][NextPost]_vars

---------------------------------------------------------------------------
(* Properties of SpecPost *)

\* C13: a post load whose signal has been aborted performs no later update,
\* neither a write of postCache nor a setState, so every postCache entry
\* holds the whole comment tree of a load that was never cancelled.
C13_CancelledPostLoadIsSilent ==
    /\ \A l \in 1..Len(postLoads) :
          ~(postLoads[l].pc = "done" /\ postLoads[l].aborted /\ postLoads[l].updated)
    /\ \A p \in DOMAIN postCache :
          postCache[p].value.comments =
             buildCommentTree(world, postCache[p].value.item.kids, 0,
                              MAX_COMMENT_DEPTH)

---------------------------------------------------------------------------
(* SpecResolve: fetchStoryIds is called for one category after another;    *)
(* every endpoint of the upstream API holds an id list of its own.         *)

\* the endpoints fetchStoryIds can request
Endpoints == {"topstories", "newstories", "askstories", "showstories",
              "jobstories", "updates"}

\* mutant: every ranked category is resolved from topstories
endpointAlwaysTop(sec) == "topstories"

\* the endpoint expression of fetchStoryIds
endpointOf(sec) ==
    IF sec = "new" THEN "newstories"
    ELSE IF sec = "ask" THEN "askstories"
    ELSE IF sec = "show" THEN "showstories"
    ELSE IF sec = "jobs" THEN "jobstories"
    ELSE "topstories"

\* the requests one fetchStoryIds(section, signal) call issues, in order
storyIdsRequests(sec) ==
    IF sec = "submit" THEN <<>>
    ELSE IF sec = "comments" THEN <<"updates">>
    ELSE <<endpointOf(sec)>>

\* the id list an endpoint holds: no two endpoints hold the same one
EndpointList(endpoint) ==
    IF endpoint = "topstories" THEN MakeList("asc", 6)
    ELSE IF endpoint = "newstories" THEN MakeList("desc", 6)
    ELSE IF endpoint = "askstories" THEN MakeList("asc", 5)
    ELSE IF endpoint = "showstories" THEN MakeList("desc", 5)
    ELSE IF endpoint = "jobstories" THEN MakeList("asc", 4)
    ELSE MakeList("desc", 4)

\* how an endpoint answers a request
EndpointAnswers(endpoint) == {OkList(EndpointList(endpoint)), BadStatus}

InitResolve ==
    /\ mode = "resolve"
    /\ world = "none"
    /\ section = "top"
    /\ CacheOff
    /\ PageOff
    /\ TreeOff
    /\ FeedOff
    /\ PostOff
    /\ resolved = EmptyMap
    /\ UserOff

\* fetchStoryIds(sec, signal) is called and returns without a request
ResolveWithoutRequest ==
    /\ mode = "resolve"
    /\ \E sec \in Sections :
         /\ storyIdsRequests(sec) = <<>>
         /\ resolved' = (sec :> [requests |-> <<>>,
                                 ret |-> fetchStoryIds(sec, BadStatus)])
                             @@ resolved
    /\ UNCHANGED <<envVars, notResolveVars>>

\* fetchStoryIds(sec, signal) is called and its request answered
ResolveWithRequest ==
    /\ mode = "resolve"
    /\ \E sec \in Sections :
         /\ storyIdsRequests(sec) # <<>>
         /\ \E resp \in EndpointAnswers(storyIdsRequests(sec)[1]) :
              resolved' = (sec :> [requests |-> storyIdsRequests(sec),
                                   ret |-> fetchStoryIds(sec, resp)])
                              @@ resolved
    /\ UNCHANGED <<envVars, notResolveVars>>

NextResolve ==
    \/ ResolveWithoutRequest
    \/ ResolveWithRequest

SpecResolve == InitResolve /\ [][NextResolve]_vars

---------------------------------------------------------------------------
(* Properties of SpecResolve *)

\* the categories other than submit and comments
RankedSections == Sections \ {"submit", "comments"}

\* C18 as stated: each of top, new, past, ask, show and jobs is resolved by
\* exactly one endpoint request, and no two of them from the same endpoint
C18_OneEndpointPerCategory ==
    \A a \in DOMAIN resolved \cap RankedSections :
        /\ Len(resolved[a].requests) = 1
        /\ \A b \in DOMAIN resolved \cap RankedSections :
              a # b => resolved[a].requests # resolved[b].requests

\* C18: each of top, new, past, ask, show and jobs is resolved by exactly one
\* request, to a ranked-list endpoint, whose list the call returns when the
\* request succeeds; new, ask, show and jobs have an endpoint each, and top
\* and past are both resolved from topstories, which no other category uses
C18_EndpointPerCategory ==
    \A a \in DOMAIN resolved \cap RankedSections :
        /\ Len(resolved[a].requests) = 1
        /\ resolved[a].requests[1] \in Endpoints \ {"updates"}
        /\ resolved[a].ret.tag = "list"
              => resolved[a].ret.ids = EndpointList(resolved[a].requests[1])
        /\ a \in {"top", "past"} <=> resolved[a].requests[1] = "topstories"
        /\ \A b \in DOMAIN resolved \cap RankedSections :
              (a # b /\ resolved[a].requests = resolved[b].requests)
                  => {a, b} = {"top", "past"}

\* top, past and new have been resolved with success: top and past from the
\* same endpoint and with the same list, new from another
C18_Witness ==
    /\ {"top", "past", "new"} \subseteq DOMAIN resolved
    /\ resolved["top"].requests = resolved["past"].requests
    /\ resolved["top"].ret.tag = "list"
    /\ resolved["past"].ret = resolved["top"].ret
    /\ resolved["new"].ret.tag = "list"
    /\ resolved["new"].ret # resolved["top"].ret

---------------------------------------------------------------------------
(* SpecSingle: single calls of fetchItemById and fetchUserById *)

OkUser(handle) == [kind |-> "ok", body |-> [tag |-> "user", user |-> [id |-> handle]]]

\* fetchUserById on the endpoint's response
fetchUserById(resp) ==
    LET user == fetchJson(resp)
    IN  IF user.tag = "throw" THEN Thrown
        ELSE IF user.tag # "user" THEN Null
        ELSE user

\* the item endpoint's answers: an item of any type, live or suppressed,
\* null, a payload without a numeric id, a failure status, no answer at all
ItemResponses ==
    {OkItem(Item(id, type, dead, deleted, FALSE, <<>>)) :
        id \in 1..MaxSingleId, type \in {"story", "comment", "job", "poll"},
        dead \in BOOLEAN, deleted \in BOOLEAN}
      \cup {OkNull, OkNoId, BadStatus, NetErr}

\* the user endpoint's answers: a user, null, a payload without a string id,
\* a failure status, no answer at all
UserResponses ==
    {OkUser(h) : h \in UserHandles} \cup {OkNull, OkNoId, BadStatus, NetErr}

InitSingle ==
    /\ mode = "single"
    /\ world = "none"
    /\ section = "top"
    /\ feedCache = EmptyMap
    /\ postCache = EmptyMap
    /\ userCache = EmptyMap
    /\ now = 0
    /\ writes = 0
    /\ lastOp = [op |-> "none"]
    /\ lastWrite = NoWrites
    /\ PageOff
    /\ TreeOff
    /\ FeedOff
    /\ PostOff
    /\ ResolveOff
    /\ UserOff

\* fetchItemById(id, signal) is called and its request answered
CallFetchItemById ==
    /\ mode = "single"
    /\ \E resp \in ItemResponses, aborted \in BOOLEAN :
         lastOp' = [op |-> "fetchItemById", resp |-> resp, aborted |-> aborted,
                    ret |-> WithSignal(aborted, fetchItemById(resp))]
    /\ UNCHANGED <<envVars, feedCache, postCache, userCache, now, writes, lastWrite,
                   notCacheVars>>

\* fetchUserById(id, signal) is called and its request answered
CallFetchUserById ==
    /\ mode = "single"
    /\ \E resp \in UserResponses, aborted \in BOOLEAN :
         lastOp' = [op |-> "fetchUserById", resp |-> resp, aborted |-> aborted,
                    ret |-> WithSignal(aborted, fetchUserById(resp))]
    /\ UNCHANGED <<envVars, feedCache, postCache, userCache, now, writes, lastWrite,
                   notCacheVars>>

NextSingle ==
    \/ CallFetchItemById
    \/ CallFetchUserById

SpecSingle == InitSingle /\ [][NextSingle]_vars

---------------------------------------------------------------------------
(* Properties of SpecSingle *)

\* the response is a transport-level failure or the call was cancelled
TransportFailure(call) == call.aborted \/ call.resp.kind = "neterr"

\* the response has a failure status, or a payload that is null or lacks a
\* well-typed id
NotFound(call) ==
    \/ call.resp.kind = "status"
    \/ /\ call.resp.kind = "ok"
       /\ call.resp.body.tag \in {"null", "noid"}

\* C14: fetchItemById and fetchUserById return null, and do not throw, when
\* the response has a non-success status or a payload that is null or lacks
\* a well-typed id; they throw only on a transport-level failure or on
\* cancellation, and return the payload otherwise.
C14_NotFoundIsNull ==
    lastOp.op \in {"fetchItemById", "fetchUserById"} =>
        IF TransportFailure(lastOp) THEN lastOp.ret = Thrown
        ELSE IF NotFound(lastOp) THEN lastOp.ret = Null
        ELSE lastOp.ret = lastOp.resp.body

\* C14, the part that holds: null for a payload that is null or lacks a
\* well-typed id, the payload itself when it is well typed, and a throw on
\* a transport-level failure, a cancellation or a non-success status.
C14_MalformedIsNull ==
    lastOp.op \in {"fetchItemById", "fetchUserById"} =>
        IF TransportFailure(lastOp) \/ lastOp.resp.kind = "status"
          THEN lastOp.ret = Thrown
        ELSE IF NotFound(lastOp) THEN lastOp.ret = Null
        ELSE lastOp.ret = lastOp.resp.body

---------------------------------------------------------------------------
(* UserView *)

\* instants of a user session: the start, and the first instant a profile
\* written at the start is expired
UserInstants == {0, USER_CACHE_TTL_MS + 1}

\* the user endpoint's answers for a handle: the profile, nothing, a failure
\* status, no answer at all
UserViewResponses(h) == {OkUser(h), OkNull, BadStatus, NetErr}

\* a user load awaiting fetchUserById
NewUserLoad(h) == [pc |-> "user", userId |-> h, aborted |-> FALSE, updated |-> FALSE]

\* a user load that has returned; it is remembered whether it had been
\* cancelled and whether it set state or wrote the cache
FinishedUserLoad(load, updated) ==
    [pc |-> "done", userId |-> load.userId, aborted |-> load.aborted,
     updated |-> updated]

\* controller.abort() by the effect's cleanup
AbortUserLoad(loads, l) ==
    IF l = 0 THEN loads
    ELSE IF loads[l].pc = "done" THEN loads
    ELSE [loads EXCEPT ![l].aborted = TRUE]

\* mutant: the then callback writes the cache before it tests the profile
UserThenWritesFirst(cache, key, nextUser, t) ==
    IF nextUser.tag = "throw" THEN cache
    ELSE writeTimedCache(cache, key, nextUser, t)

\* userCache after the then callback of the UserView effect, which runs
\* when fetchUserById resolves and throws when the profile is null
UserThen(cache, key, nextUser, t) ==
    IF nextUser.tag = "user" THEN writeTimedCache(cache, key, nextUser, t)
    ELSE cache

\* the catch callback of the UserView effect
UserLoadFailure(v, aborted, message) ==
    IF aborted THEN v
    ELSE [v EXCEPT !.user = Null, !.loadState = "error", !.errorMessage = message]

---------------------------------------------------------------------------
(* SpecUser: a session of UserView over the two spellings of one handle *)

InitUser ==
    /\ mode = "user"
    /\ world = "none"
    /\ section = "top"
    /\ CacheOff
    /\ PageOff
    /\ TreeOff
    /\ FeedOff
    /\ PostOff
    /\ ResolveOff
    /\ UserOff

\* UserView is mounted: the cache serves the profile, or the effect starts a
\* load
OpenUser ==
    /\ mode = "user"
    /\ ~userView.open
    /\ \E h \in UserHandles :
         LET cachedUser == readTimedCache(userCache, toLowerCase(h),
                                          USER_CACHE_TTL_MS, now)
         IN  /\ userCache' = cachedUser.cache
             /\ IF cachedUser.ret.tag = "value"
                  THEN /\ userView' = [open |-> TRUE, userId |-> h,
                                       user |-> cachedUser.ret.value,
                                       loadState |-> "ready", errorMessage |-> "",
                                       load |-> 0, owner |-> 0]
                       /\ userLoads' = userLoads
                  ELSE /\ Len(userLoads) < MaxUserLoads
                       /\ userView' = [open |-> TRUE, userId |-> h, user |-> Null,
                                       loadState |-> "loading", errorMessage |-> "",
                                       load |-> Len(userLoads) + 1,
                                       owner |-> Len(userLoads) + 1]
                       /\ userLoads' = Append(userLoads, NewUserLoad(h))
    /\ UNCHANGED <<envVars, now, notUserVars>>

\* UserView is unmounted: the effect's cleanup aborts the controller
CloseUser ==
    /\ mode = "user"
    /\ userView.open
    /\ userLoads' = AbortUserLoad(userLoads, userView.load)
    /\ userView' = ClosedUser
    /\ UNCHANGED <<envVars, userCache, now, notUserVars>>

\* fetchUserById settles: the then callback sets the profile and writes the
\* user cache, or the catch callback reports the error; the view renders
\* again and reads cachedUser
UserArrives ==
    /\ mode = "user"
    /\ \E l \in 1..Len(userLoads) :
         /\ userLoads[l].pc = "user"
         /\ \E resp \in UserViewResponses(userLoads[l].userId) :
              LET load == userLoads[l]
                  cacheKey == toLowerCase(load.userId)
                  nextUser == WithSignal(load.aborted, fetchUserById(resp))
                  shown == userView.open /\ userView.owner = l
                  message == IF nextUser.tag = "throw" THEN ErrorMessage(resp)
                             ELSE "User not found."
              IN  IF nextUser.tag = "user"
                    THEN /\ userCache' = UserThen(userCache, cacheKey, nextUser, now)
                         /\ userView' =
                              IF shown
                                THEN [userView EXCEPT !.user = nextUser,
                                         !.loadState = "ready", !.load = 0]
                                ELSE userView
                         /\ userLoads' = [userLoads EXCEPT
                                             ![l] = FinishedUserLoad(@, TRUE)]
                    ELSE /\ userCache' =
                              IF shown /\ ~load.aborted
                                THEN readTimedCache(
                                         UserThen(userCache, cacheKey, nextUser, now),
                                         cacheKey, USER_CACHE_TTL_MS, now).cache
                                ELSE UserThen(userCache, cacheKey, nextUser, now)
                         /\ userView' =
                              IF shown
                                THEN UserLoadFailure(userView, load.aborted, message)
                                ELSE userView
                         /\ userLoads' = [userLoads EXCEPT
                                             ![l] = FinishedUserLoad(@, ~load.aborted)]
    /\ UNCHANGED <<envVars, now, notUserVars>>

\* time passes
UserTick ==
    /\ mode = "user"
    /\ \E t \in UserInstants : t > now /\ now' = t
    /\ UNCHANGED <<envVars, userCache, userVars, notUserVars>>

NextUser ==
    \/ OpenUser
    \/ CloseUser
    \/ UserArrives
    \/ UserTick

SpecUser == InitUser /\ [][NextUser]_vars

---------------------------------------------------------------------------
(* SpecViews: a session of FeedView, of PostView or of UserView *)

InitViews == InitFeed \/ InitPost \/ InitUser

NextViews ==
    \/ NextFeed
    \/ NextPost
    \/ NextUser

SpecViews == InitViews /\ [][NextViews]_vars

---------------------------------------------------------------------------
(* Properties of SpecViews *)

\* the load state and the error message a view shows
Shown(v) == <<v.loadState, v.errorMessage>>

\* the step changes neither the error message of the view nor its load
\* state into error
NoNewError(v, w) ==
    /\ w.errorMessage = v.errorMessage
    /\ w.loadState = "error" => v.loadState = "error"

\* C21: a feed load, load-more, post load or user load whose signal has been
\* aborted sets neither loadState = error nor an error message when it
\* returns, whichever request it was waiting for when it was aborted.
C21_CancelledIsNoError ==
    [][/\ \A o \in 1..MaxOps :
             (o \in 1..Len(ops) /\ ops[o].aborted /\ ops[o].pc # "done"
                 /\ ops'[o].pc # ops[o].pc)
                => /\ NoNewError(view, view')
                   /\ ops'[o].pc = "done"
       /\ \A l \in 1..MaxPostLoads :
             (l \in 1..Len(postLoads) /\ postLoads[l].aborted
                 /\ postLoads[l].pc # "done" /\ postLoads'[l].pc # postLoads[l].pc)
                => NoNewError(postView, postView')
       /\ \A l \in 1..MaxUserLoads :
             (l \in 1..Len(userLoads) /\ userLoads[l].aborted
                 /\ userLoads[l].pc # "done" /\ userLoads'[l].pc # userLoads[l].pc)
                => /\ NoNewError(userView, userView')
                   /\ ~userLoads'[l].updated]_vars

\* a feed load was cancelled by a refresh while it waited for its id list
\* and has returned; the refresh is still loading and no error is shown
C21_Witness ==
    /\ mode = "feed"
    /\ mounted
    /\ Len(ops) >= 2
    /\ ops[1].kind = "load" /\ ops[1].pc = "done" /\ ops[1].aborted
    /\ ops[2].kind = "load" /\ ops[2].pc = "ids" /\ ~ops[2].aborted
    /\ view.loadState = "loading"
    /\ view.errorMessage = ""

\* a cancelled user load has returned and the profile is opened again
C21_WitnessUser ==
    /\ mode = "user"
    /\ Len(userLoads) = 2
    /\ userLoads[1].pc = "done" /\ userLoads[1].aborted
    /\ userView.open
    /\ userView.loadState = "loading"

\* a cancelled post load has returned
C21_WitnessPost ==
    /\ mode = "post"
    /\ Len(postLoads) >= 1
    /\ postLoads[1].pc = "done" /\ postLoads[1].aborted

\* in this step loadFeed() runs for a view that is mounted or changes its
\* category, while feedCache holds a valid entry for the category
LoadFeedOverValidEntry ==
    /\ mounted'
    /\ ~mounted \/ section' # section
    /\ section' # "submit"
    /\ EntryState(feedCache, section', FEED_CACHE_TTL_MS, now) = "valid"

\* in this step a PostView is rendered for a post whose entry is valid
PostOverValidEntry ==
    /\ ~postView.open
    /\ postView'.open
    /\ EntryState(postCache, postView'.postId, POST_CACHE_TTL_MS, now) = "valid"

\* in this step a UserView is rendered for a user whose entry is valid
UserOverValidEntry ==
    /\ ~userView.open
    /\ userView'.open
    /\ EntryState(userCache, toLowerCase(userView'.userId), USER_CACHE_TTL_MS, now)
          = "valid"

\* C25: a loadFeed that is not forced fresh and finds a valid feedCache entry
\* for the category starts no request and sets ids, items and nextFetchIndex
\* to the cached snapshot with loadState = ready; a PostView or UserView
\* rendered over a valid entry of its cache starts no request and shows the
\* cached value.
C25_CacheHitAvoidsNetwork ==
    [][/\ LoadFeedOverValidEntry
            => /\ Len(ops') = Len(ops)
               /\ \A o \in 1..Len(ops) : ops'[o].pc = ops[o].pc
               /\ requestRef' = 0
               /\ view'.ids = feedCache[section'].value.ids
               /\ view'.items = feedCache[section'].value.items
               /\ view'.nextFetchIndex = feedCache[section'].value.nextFetchIndex
               /\ view'.loadState = "ready"
               /\ feedCache' = feedCache
       /\ PostOverValidEntry
            => /\ postLoads' = postLoads
               /\ postView'.loadState = "ready"
               /\ postView'.item = Got(postCache[postView'.postId].value.item)
               /\ postView'.comments = postCache[postView'.postId].value.comments
               /\ postCache' = postCache
       /\ UserOverValidEntry
            => /\ userLoads' = userLoads
               /\ userView'.loadState = "ready"
               /\ userView'.user = userCache[toLowerCase(userView'.userId)].value
               /\ userCache' = userCache]_vars

\* the feed was served from a valid entry: the view shows the cached
\* snapshot at the instant of its write while the load-more of the view
\* before, cancelled by the change of category, is still in flight
C25_Witness ==
    /\ mode = "feed"
    /\ mounted
    /\ section = "top"
    /\ view.loadState = "ready"
    /\ requestRef = 0
    /\ "top" \in DOMAIN feedCache
    /\ now = feedCache["top"].createdAt
    /\ view.ids = feedCache["top"].value.ids
    /\ view.items = feedCache["top"].value.items
    /\ view.items # <<>>
    /\ \E o \in 1..Len(ops) :
          ops[o].kind = "more" /\ ops[o].aborted /\ ops[o].pc = "page"

\* a post is shown from postCache: no load belongs to the view
C25_WitnessPost ==
    /\ mode = "post"
    /\ postView.open
    /\ postView.loadState = "ready"
    /\ postView.owner = 0
    /\ postView.postId \in DOMAIN postCache

\* a profile opened under the other spelling of the handle is shown from
\* userCache: no load belongs to the view
C25_WitnessUser ==
    /\ mode = "user"
    /\ userView.open
    /\ userView.loadState = "ready"
    /\ userView.owner = 0
    /\ userView.userId = "PG"
    /\ userView.user.user.id = "pg"
    /\ Len(userLoads) = 1

\* the step puts no entry into the cache and changes none
NothingWritten(cache, after) ==
    \A k \in DOMAIN after : k \in DOMAIN cache /\ after[k] = cache[k]

\* C26: a feed load whose id-list request fails, a post load whose item
\* request fails or finds nothing and a user load whose request fails or
\* finds nothing write no cache entry; a refresh leaves the entry of the
\* category as it is when it starts and when it fails, so the entry is
\* still served within its 60 s.
C26_FailuresAreNotCached ==
    [][/\ \A o \in 1..MaxOps :
             (LoadFeedResumes(o) /\ ops[o].pc = "ids" /\ ops'[o].pc = "done")
                => feedCache' = feedCache
       /\ (SameView /\ view.loadState # "loading" /\ view'.loadState = "loading")
             => feedCache' = feedCache
       /\ \A l \in 1..MaxPostLoads :
             (l \in 1..Len(postLoads) /\ postLoads[l].pc = "item"
                 /\ postLoads'[l].pc = "done")
                => NothingWritten(postCache, postCache')
       /\ \A l \in 1..MaxUserLoads :
             (l \in 1..Len(userLoads) /\ userLoads[l].pc = "user"
                 /\ userLoads'[l].pc = "done"
                 /\ (userLoads[l].aborted \/ userView'.loadState = "error"))
                => NothingWritten(userCache, userCache')
       /\ NothingWritten(feedCache, feedCache')
             \/ \E o \in 1..Len(ops) : LoadFeedApplies(o) \/ LoadMoreApplies(o)]_vars

\* a refresh has failed while feedCache holds a valid entry for the
\* category: the error is shown and the entry is still there
C26_Witness ==
    /\ mode = "feed"
    /\ mounted
    /\ view.loadState = "error"
    /\ requestRef = 0
    /\ section \in DOMAIN feedCache
    /\ feedCache[section].value.items # <<>>
    /\ EntryState(feedCache, section, FEED_CACHE_TTL_MS, now) = "valid"

\* a user load has found nothing: the error is shown and nothing is cached
C26_WitnessUser ==
    /\ mode = "user"
    /\ userView.open
    /\ userView.loadState = "error"
    /\ userView.errorMessage = "User not found."
    /\ userCache = EmptyMap

\* a post load has found nothing: the error is shown and nothing is cached
C26_WitnessPost ==
    /\ mode = "post"
    /\ postView.open
    /\ postView.loadState = "error"
    /\ postView.errorMessage = "Post not found."
    /\ postCache = EmptyMap

---------------------------------------------------------------------------
(* SpecTreeLive: SpecTree where every item request settles and every       *)
(* continuation of a settled Promise.all runs                               *)

SpecTreeLive == SpecTree /\ WF_vars(NextTree)

---------------------------------------------------------------------------
(* Properties of SpecTreeLive *)

\* the calls that issued requests at the given number of levels below the
\* outermost call
FramesAt(fr, k) == {p \in DOMAIN fr : Len(p) = k}

\* the number of item requests the calls in S issued
RECURSIVE RequestsIn(_, _)
RequestsIn(fr, S) ==
    IF S = {} THEN 0
    ELSE LET p == CHOOSE q \in S : TRUE
         IN  Len(fr[p].requested) + RequestsIn(fr, S \ {p})

\* 10 + 10^2 + 10^3 + 10^4 + 10^5
RequestBound == 10 + 10^2 + 10^3 + 10^4 + 10^5

\* C28: buildCommentTree terminates for every upstream graph, also when kid
\* lists lead back to an ancestor or are longer or deeper than the limits,
\* and a call at depth 0 issues at most 10^(k+1) item requests k levels down
\* for k = 0..4 and none further down: at most 10 + 10^2 + ... + 10^5.
C28_TerminatesWithinBound ==
    /\ <>(tpc = "done")
    /\ [](treeDepth = 0 =>
            /\ \A p \in DOMAIN frames : Len(p) < 5
            /\ \A k \in 0..4 :
                  /\ Cardinality(FramesAt(frames, k)) <= 10^k
                  /\ RequestsIn(frames, FramesAt(frames, k)) <= 10^(k + 1)
            /\ RequestsIn(frames, DOMAIN frames) <= RequestBound)

\* the call over two comments that name each other as kid has returned: it
\* went through the cycle five times, one request a level
C28_Witness ==
    /\ world = "cycle"
    /\ treeDepth = 0
    /\ tpc = "done"
    /\ Height(treeOut) = 5
    /\ treeOut[1].children[1].children[1].id = treeOut[1].id
    /\ RequestsIn(frames, DOMAIN frames) = 5

\* the call over more than ten root ids, the first of which has more than
\* ten kids, has returned after ten requests at each of the two levels
C28_WitnessWide ==
    /\ world = "wide"
    /\ treeDepth = 0
    /\ tpc = "done"
    /\ Len(treeIds) > 10
    /\ RequestsIn(frames, FramesAt(frames, 0)) = 10
    /\ RequestsIn(frames, FramesAt(frames, 1)) = 10

---------------------------------------------------------------------------
(* SpecFeedLive: the session of SpecStale in which every upstream request  *)
(* completes, with success or failure, so that every loadFeed and every    *)
(* handleLoadMore waiting for one resumes                                   *)

\* some call of the kind waits at the await
Waiting(kind, pc) ==
    \E o \in 1..Len(ops) : ops[o].kind = kind /\ ops[o].pc = pc

\* weak fairness of LoadFeedReturn and of LoadMoreReturn. Each is enabled
\* exactly when a call of its kind waits for fetchFeedPage, and the enabling
\* condition is written as that state predicate.
LoadFeedReturnIsFair ==
    []<>(~Waiting("load", "page")) \/ []<><<LoadFeedReturn>>_vars

LoadMoreReturnIsFair ==
    []<>(~Waiting("more", "page")) \/ []<><<LoadMoreReturn>>_vars

FeedRequestsComplete ==
    /\ WF_vars(StoryIdsArrive)
    /\ LoadFeedReturnIsFair
    /\ LoadMoreReturnIsFair

SpecFeedLive == SpecStale /\ FeedRequestsComplete

---------------------------------------------------------------------------
(* Properties of SpecFeedLive *)

\* the load-mores of the mounted view that are in flight
OpenLoadMores ==
    {o \in 1..Len(ops) : ops[o].kind = "more" /\ ops[o].pc # "done" /\ ~ops[o].orphan}

\* C30: an un-cancelled feed load is in flight exactly while the mounted
\* view shows loading, and a view that shows loading eventually shows ready
\* or error (or is unmounted, which cancels the load); a view whose
\* loadingMore is true has a load-more in flight and loadingMore eventually
\* is false again.
C30_LoadingEnds ==
    /\ (mounted /\ view.loadState = "loading")
          ~> (~mounted \/ view.loadState \in {"ready", "error"})
    /\ view.loadingMore ~> ~view.loadingMore
    /\ [](/\ LiveLoads # {} <=> (mounted /\ view.loadState = "loading")
          /\ view.loadingMore => OpenLoadMores # {})

\* a load that was never cancelled has ended in an error
C30_Witness ==
    /\ mounted
    /\ Len(ops) >= 1
    /\ ops[1].kind = "load" /\ ops[1].pc = "done" /\ ~ops[1].aborted
    /\ view.loadState = "error"
    /\ LiveLoads = {}

\* a load-more has returned and loadingMore is false again
C30_WitnessMore ==
    /\ mounted
    /\ \E o \in 1..Len(ops) : ops[o].kind = "more" /\ ops[o].pc = "done"
    /\ OpenLoadMores = {}
    /\ ~view.loadingMore
    /\ view.loadState = "ready"

\* a load-more has returned and loadingMore is false again while a load
\* that started after it is in flight
C30_WitnessDuringLoad ==
    /\ mounted
    /\ \E o \in 1..Len(ops) : ops[o].kind = "more" /\ ops[o].pc = "done"
    /\ ~view.loadingMore
    /\ view.loadState = "loading"
    /\ LiveLoads # {}

=============================================================================
